---------------------------- MODULE Spec2Model ----------------------------
(***************************************************************************)
(* A model of Validation.js (src/js/validation.js): the rule parser, the   *)
(* validator dispatch table, message templating and the validationJs       *)
(* orchestrator with its process-wide ErrorStore.                          *)
(*                                                                         *)
(* JavaScript strings are TLA+ strings (Len, SubSeq and \o act on them     *)
(* character by character).  A JavaScript value is a record tagged with     *)
(* its typeof-like kind; a DOM element is a record of the attributes the   *)
(* library reads; a form is the sequence of its elements in document order.*)
(***************************************************************************)
EXTENDS Integers, Sequences, FiniteSets, TLC

(***************************************************************************)
(* JavaScript String built-ins used by the library.                        *)
(***************************************************************************)

\* s[i-1] (1-based here); "" when i is outside the string.
Ch(s, i) == IF i >= 1 /\ i <= Len(s) THEN SubSeq(s, i, i) ELSE ""

\* s.slice(i-1): the suffix starting at 1-based position i.
SliceFrom(s, i) == IF i > Len(s) THEN "" ELSE SubSeq(s, i, Len(s))

\* 1-based position of the first occurrence of sub in s at or after from; 0 if none.
IndexOfFrom(s, sub, from) ==
    LET hits == {i \in from..(Len(s) - Len(sub) + 1) :
                    SubSeq(s, i, i + Len(sub) - 1) = sub}
    IN  IF hits = {} THEN 0 ELSE CHOOSE i \in hits : \A j \in hits : i <= j

IndexOf(s, sub) == IndexOfFrom(s, sub, 1)

\* s.includes(sub)
Includes(s, sub) == IndexOf(s, sub) # 0

\* s.startsWith(p) / s.endsWith(p)
StartsWith(s, p) == Len(p) <= Len(s) /\ SubSeq(s, 1, Len(p)) = p

EndsWith(s, p) == Len(p) <= Len(s) /\ SubSeq(s, Len(s) - Len(p) + 1, Len(s)) = p

\* s.split(sep) for a non-empty separator: always at least one segment.
RECURSIVE Split(_, _)
Split(s, sep) ==
    LET i == IndexOf(s, sep)
    IN  IF i = 0 THEN <<s>>
        ELSE <<SubSeq(s, 1, i - 1)>> \o Split(SliceFrom(s, i + Len(sep)), sep)

\* arr.join(sep) for an array of strings
RECURSIVE Join(_, _)
Join(arr, sep) ==
    IF Len(arr) = 0 THEN ""
    ELSE IF Len(arr) = 1 THEN arr[1]
    ELSE arr[1] \o sep \o Join(Tail(arr), sep)

\* s.replace(/pat/g, rep) for a literal pattern: every occurrence, left to
\* right, the replacement text is not rescanned.
RECURSIVE ReplaceAll(_, _, _)
ReplaceAll(s, pat, rep) ==
    LET i == IndexOf(s, pat)
    IN  IF i = 0 THEN s
        ELSE SubSeq(s, 1, i - 1) \o rep
                \o ReplaceAll(SliceFrom(s, i + Len(pat)), pat, rep)

\* the characters \s matches (those that occur in the modelled inputs)
WhiteSpace == {" ", "\t", "\n"}

\* s.trim()
Trim(s) ==
    LET keep == {i \in 1..Len(s) : Ch(s, i) \notin WhiteSpace}
    IN  IF keep = {} THEN ""
        ELSE SubSeq(s, CHOOSE i \in keep : \A j \in keep : i <= j,
                       CHOOSE i \in keep : \A j \in keep : i >= j)

Digits == {"0", "1", "2", "3", "4", "5", "6", "7", "8", "9"}

LowerLetters ==
    {"a", "b", "c", "d", "e", "f", "g", "h", "i", "j", "k", "l", "m",
     "n", "o", "p", "q", "r", "s", "t", "u", "v", "w", "x", "y", "z"}

UpperLetters ==
    {"A", "B", "C", "D", "E", "F", "G", "H", "I", "J", "K", "L", "M",
     "N", "O", "P", "Q", "R", "S", "T", "U", "V", "W", "X", "Y", "Z"}

LowerSeq == "abcdefghijklmnopqrstuvwxyz"

UpperSeq == "ABCDEFGHIJKLMNOPQRSTUVWXYZ"

\* c.toUpperCase() / c.toLowerCase() of one character
UpperCh(c) == LET i == IndexOf(LowerSeq, c) IN IF c # "" /\ i # 0 THEN Ch(UpperSeq, i) ELSE c

LowerCh(c) == LET i == IndexOf(UpperSeq, c) IN IF c # "" /\ i # 0 THEN Ch(LowerSeq, i) ELSE c

RECURSIVE ToUpperCase(_)
ToUpperCase(s) == IF s = "" THEN "" ELSE UpperCh(Ch(s, 1)) \o ToUpperCase(SliceFrom(s, 2))

RECURSIVE ToLowerCase(_)
ToLowerCase(s) == IF s = "" THEN "" ELSE LowerCh(Ch(s, 1)) \o ToLowerCase(SliceFrom(s, 2))

\* every character of s lies in the class cls, and s is not empty: /^[cls]+$/
AllIn(s, cls) == s # "" /\ \A i \in 1..Len(s) : Ch(s, i) \in cls

\* the number of consecutive digits of s starting at position i
DigitRun(s, i) ==
    LET runs == {k \in 0..(Len(s) - i + 1) :
                    \A j \in i..(i + k - 1) : Ch(s, j) \in Digits}
    IN  IF runs = {} THEN 0 ELSE CHOOSE k \in runs : \A m \in runs : k >= m

DigitVal(c) == IndexOf("0123456789", c) - 1

\* the natural number a digit string denotes (0 for the empty string)
RECURSIVE ToNat(_)
ToNat(s) ==
    IF s = "" THEN 0
    ELSE 10 * ToNat(SubSeq(s, 1, Len(s) - 1)) + DigitVal(Ch(s, Len(s)))

RECURSIVE Pow10(_)
Pow10(k) == IF k <= 0 THEN 1 ELSE 10 * Pow10(k - 1)

\* the decimal digits of a natural number: String(n)
RECURSIVE NatToString(_)
NatToString(n) ==
    IF n < 10 THEN Ch("0123456789", n + 1)
    ELSE NatToString(n \div 10) \o Ch("0123456789", (n % 10) + 1)

(***************************************************************************)
(* JavaScript values.  Every value is a record with the same fields, of    *)
(* which the tag t says which ones count: s a string, n a number (held as  *)
(* an integer count of 1/Scale, so two fraction digits are exact), b a     *)
(* boolean, a an array of strings, f a FileList (ref names the element     *)
(* that owns it: FileList objects are compared by identity).               *)
(***************************************************************************)
Scale == 10 * 10

JsVal(t, s, n, b, a, f, ref) ==
    [t |-> t, s |-> s, n |-> n, b |-> b, a |-> a, f |-> f, ref |-> ref]

Undef == JsVal("undefined", "", 0, FALSE, <<>>, <<>>, 0)

Null == JsVal("null", "", 0, FALSE, <<>>, <<>>, 0)

Str(x) == JsVal("string", x, 0, FALSE, <<>>, <<>>, 0)

\* the number k/Scale
Num(k) == JsVal("number", "", k, FALSE, <<>>, <<>>, 0)

Bool(x) == JsVal("boolean", "", 0, x, <<>>, <<>>, 0)

Arr(x) == JsVal("array", "", 0, FALSE, x, <<>>, 0)

FileList(x, ref) == JsVal("files", "", 0, FALSE, <<>>, x, ref)

\* the Promise validateDimensions returns for a decodable image
Promise == JsVal("promise", "", 0, FALSE, <<>>, <<>>, 0)

\* value === '' || value === null || value === undefined
IsBlank(v) == v.t \in {"undefined", "null"} \/ (v.t = "string" /\ v.s = "")

\* a result of parseFloat / Number: NaN or the number v/Scale
NaN == [nan |-> TRUE, v |-> 0]

Finite(k) == [nan |-> FALSE, v |-> k]

\* the text of the number k/Scale: String(k/Scale)
NumToString(k) ==
    LET abs   == IF k < 0 THEN 0 - k ELSE k
        whole == NatToString(abs \div Scale)
        cents == abs % Scale
        frac  == IF cents = 0 THEN ""
                 ELSE IF cents % 10 = 0 THEN "." \o NatToString(cents \div 10)
                 ELSE IF cents < 10 THEN ".0" \o NatToString(cents)
                 ELSE "." \o NatToString(cents)
    IN  (IF k < 0 THEN "-" ELSE "") \o whole \o frac

\* String(value)
ToStr(v) ==
    CASE v.t = "string"    -> v.s
      [] v.t = "number"    -> NumToString(v.n)
      [] v.t = "boolean"   -> IF v.b THEN "true" ELSE "false"
      [] v.t = "null"      -> "null"
      [] v.t = "undefined" -> "undefined"
      [] v.t = "array"     -> Join(v.a, ",")
      [] v.t = "files"     -> "[object FileList]"
      [] OTHER             -> "[object Promise]"

\* The decimal literal that starts at position 1 of s, the way parseFloat
\* and the numeric regex read it: sign, digits, fraction, exponent.
\* len is the number of characters consumed (0: no number there).
\* The literal is read in stages, each handing what it read to the next.

\* the value: the mantissa mant scaled by the power of ten pow, with the sign
DecimalValue(s, mant, nExp, negExp, pow) ==
    LET scaled == IF nExp = 0 THEN mant
                  ELSE IF negExp THEN mant \div pow
                  ELSE mant * pow
    IN  IF Ch(s, 1) = "-" THEN 0 - scaled ELSE scaled

\* the exponent: nExp digits after the 'e' at mantEnd + 1 and its sign
DecimalExponent(s, mantEnd, mant, eSgn, nExp) ==
    [len |-> (IF nExp > 0 THEN mantEnd + 1 + eSgn + nExp ELSE mantEnd),
     v   |-> DecimalValue(s, mant, nExp, Ch(s, mantEnd + 2) = "-",
                 Pow10(ToNat(SubSeq(s, mantEnd + 2 + eSgn, mantEnd + 1 + eSgn + nExp))))]

\* the mantissa ends at mantEnd and is worth mant
DecimalMantissa(s, mantEnd, mant, eSgn) ==
    DecimalExponent(s, mantEnd, mant, eSgn,
        IF Ch(s, mantEnd + 1) \in {"e", "E"} THEN DigitRun(s, mantEnd + 2 + eSgn) ELSE 0)

\* nInt digits, then nFrac digits after the dot at dotAt
DecimalDigits(s, sgn, nInt, dotAt, hasDot, nFrac) ==
    IF nInt = 0 /\ nFrac = 0 THEN [len |-> 0, v |-> 0]
    ELSE LET mantEnd == IF hasDot /\ (nInt > 0 \/ nFrac > 0) THEN dotAt + nFrac
                        ELSE sgn + nInt
         IN  DecimalMantissa(s, mantEnd,
                 ToNat(SubSeq(s, sgn + 1, sgn + nInt)) * Scale
                     + ToNat(SubSeq(SubSeq(s, dotAt + 1, dotAt + nFrac) \o "00", 1, 2)),
                 IF Ch(s, mantEnd + 2) \in {"+", "-"} THEN 1 ELSE 0)

\* nInt digits after the sign
DecimalInteger(s, sgn, nInt) ==
    DecimalDigits(s, sgn, nInt, sgn + nInt + 1, Ch(s, sgn + nInt + 1) = ".",
        IF Ch(s, sgn + nInt + 1) = "." THEN DigitRun(s, sgn + nInt + 2) ELSE 0)

DecimalPrefix(s) ==
    LET sgn == IF Ch(s, 1) \in {"+", "-"} THEN 1 ELSE 0
    IN  DecimalInteger(s, sgn, DigitRun(s, sgn + 1))

\* leading white space removed
TrimStart(s) ==
    LET keep == {i \in 1..Len(s) : Ch(s, i) \notin WhiteSpace}
    IN  IF keep = {} THEN ""
        ELSE SliceFrom(s, CHOOSE i \in keep : \A j \in keep : i <= j)

\* NaN when the prefix p is empty, else its value
PrefixValue(p) == IF p.len = 0 THEN NaN ELSE Finite(p.v)

\* parseFloat(String(value)): the longest numeric prefix, NaN if there is none
ParseFloatStr(s) == PrefixValue(DecimalPrefix(TrimStart(s)))

\* parseFloat(value)
ParseFloat(v) == IF v.t = "number" THEN Finite(v.n) ELSE ParseFloatStr(ToStr(v))

\* the integer of nInt digits after the sign of t
IntegerValue(t, sgn, nInt) ==
    IF nInt = 0 THEN NaN
    ELSE IF Ch(t, 1) = "-" THEN Finite(0 - ToNat(SubSeq(t, sgn + 1, sgn + nInt)) * Scale)
    ELSE Finite(ToNat(SubSeq(t, sgn + 1, sgn + nInt)) * Scale)

IntegerPrefix(t, sgn) == IntegerValue(t, sgn, DigitRun(t, sgn + 1))

SignLength(t) == IF Ch(t, 1) \in {"+", "-"} THEN 1 ELSE 0

\* parseInt(s): the longest integer prefix, NaN if there is none
ParseIntStr(s) == IntegerPrefix(TrimStart(s), SignLength(TrimStart(s)))

\* the trimmed text t is a decimal literal as a whole (p is its prefix)
WholeLiteral(t, p) ==
    IF t = "" THEN Finite(0)
    ELSE IF p.len = Len(t) THEN Finite(p.v) ELSE NaN

\* Number(s) for a string: the whole trimmed text must be a decimal literal;
\* the empty string is 0.
ToNumberStr(s) == WholeLiteral(Trim(s), DecimalPrefix(Trim(s)))

\* Number(value)
ToNumber(v) ==
    CASE v.t = "number"    -> Finite(v.n)
      [] v.t = "boolean"   -> Finite(IF v.b THEN Scale ELSE 0)
      [] v.t = "null"      -> Finite(0)
      [] v.t = "array" /\ Len(v.a) = 0 -> Finite(0)
      [] v.t = "array" /\ Len(v.a) > 1 -> NaN
      [] v.t \in {"string", "array"} -> ToNumberStr(IF v.t = "string" THEN v.s ELSE v.a[1])
      [] OTHER             -> NaN

\* x >= y, x <= y, x > y, x < y on numbers: false when either side is NaN
NumGe(x, y) == ~x.nan /\ ~y.nan /\ x.v >= y.v

NumLe(x, y) == ~x.nan /\ ~y.nan /\ x.v <= y.v

NumGt(x, y) == ~x.nan /\ ~y.nan /\ x.v > y.v

NumLt(x, y) == ~x.nan /\ ~y.nan /\ x.v < y.v

\* value.length of a string, array or FileList (undefined otherwise)
LengthOf(v) ==
    CASE v.t = "string" -> Finite(Len(v.s) * Scale)
      [] v.t = "array"  -> Finite(Len(v.a) * Scale)
      [] v.t = "files"  -> Finite(Len(v.f) * Scale)
      [] OTHER          -> NaN

\* a === b
StrictEq(x, y) ==
    /\ x.t = y.t
    /\ CASE x.t = "string"  -> x.s = y.s
         [] x.t = "number"  -> x.n = y.n
         [] x.t = "boolean" -> x.b = y.b
         [] x.t = "array"   -> FALSE
         [] x.t = "files"   -> x.ref = y.ref
         [] OTHER           -> TRUE

\* the truthiness of a value: !!value
Truthy(v) ==
    CASE v.t \in {"undefined", "null"} -> FALSE
      [] v.t = "string"                -> v.s # ""
      [] v.t = "number"                -> v.n # 0
      [] v.t = "boolean"               -> v.b
      [] OTHER                         -> TRUE

(***************************************************************************)
(* The DOM the library reads.  An element carries its name and id          *)
(* attributes, its type, its value property (undefined for an element that *)
(* is no form control), its checked flag, its FileList, the selected       *)
(* options of a multiple select, and whether its classList holds 'error'.  *)
(* node tells an element from the non-elements the code passes in the      *)
(* element position: nothing at all (undefined) or an empty array.         *)
(***************************************************************************)
Elem(name, id, type, value, checked, files, selected) ==
    [node |-> "element", name |-> name, id |-> id, type |-> type,
     value |-> value, checked |-> checked, files |-> files,
     selected |-> selected, cls |-> FALSE]

\* the missing `element` argument of validateRequired(value)
ElemUndefined ==
    [node |-> "undefined", name |-> "", id |-> "", type |-> "", value |-> Undef,
     checked |-> FALSE, files |-> <<>>, selected |-> <<>>, cls |-> FALSE]

\* the `[]` validateRequiredIf passes as `element`: its .type is undefined
ElemArray ==
    [node |-> "array", name |-> "", id |-> "", type |-> "", value |-> Undef,
     checked |-> FALSE, files |-> <<>>, selected |-> <<>>, cls |-> FALSE]

\* element.getAttribute(attributeType)
GetAttribute(e, attributeType) == IF attributeType = "id" THEN e.id ELSE e.name

\* `[attr="val"]` is no valid selector when val holds a double quote:
\* querySelector and querySelectorAll throw a SyntaxError
SelectorThrows(val) == Includes(val, "\"")

\* form.querySelectorAll(`[attr="val"]`): the matching positions, in document order
QuerySelectorAll(form, attributeType, val) ==
    SelectSeq([i \in 1..Len(form) |-> i],
              LAMBDA i : GetAttribute(form[i], attributeType) = val)

\* form.querySelector(`[attr="val"]`): the first matching position, 0 for null
QuerySelector(form, attributeType, val) ==
    LET all == QuerySelectorAll(form, attributeType, val)
    IN  IF Len(all) = 0 THEN 0 ELSE all[1]

\* getFieldValue(element) for the element at position i of the form
getFieldValue(form, i) ==
    LET element == form[i]
        checked == SelectSeq([j \in 1..Len(form) |-> j],
                       LAMBDA j : /\ form[j].type \in {"radio", "checkbox"}
                                  /\ form[j].name = element.name
                                  /\ form[j].checked)
    IN  CASE element.type = "file"            -> FileList(element.files, i)
          [] element.type = "checkbox"        -> Bool(element.checked)
          [] element.type = "radio"           ->
                IF Len(checked) = 0 THEN Str("") ELSE form[checked[1]].value
          [] element.type = "select-multiple" -> Arr(element.selected)
          [] OTHER                            -> element.value

(***************************************************************************)
(* Rule parsing.                                                           *)
(***************************************************************************)
Rule(name, parameters) == [name |-> name, parameters |-> parameters]

\* parseRule with the parameters taken from the text between the first and
\* the second ':' only
parseRuleSecondPart(rule) ==
    LET parts == Split(rule, ":")
    IN  Rule(parts[1],
             SelectSeq(Split(IF Len(parts) >= 2 THEN parts[2] ELSE "", ","),
                       LAMBDA p : p # ""))

\* one '|'-separated token -> {name, parameters}
parseRule(rule) ==
    LET parts == Split(rule, ":")
    IN  Rule(parts[1],
             SelectSeq(Split(Join(Tail(parts), ":"), ","), LAMBDA p : p # ""))

\* parseRules(rulesString): rulesString is any JavaScript value
parseRules(rulesString) ==
    IF rulesString.t # "string" THEN <<>>
    ELSE LET tokens == Split(rulesString.s, "|")
         IN  [k \in 1..Len(tokens) |-> parseRule(tokens[k])]

\* parameters[k] of a rule (0-based k), undefined when there is none
Param(parameters, k) == IF k + 1 <= Len(parameters) THEN Str(parameters[k + 1]) ELSE Undef

(***************************************************************************)
(* Validator outcomes.  valid is the truthiness of the returned `valid`    *)
(* property; message is the returned message ("" when there is none);      *)
(* threw says the call ended by throwing instead of returning; pending     *)
(* says the returned object is a Promise (it has no `valid` property).     *)
(***************************************************************************)
Outcome(valid, message, threw, pending) ==
    [valid |-> valid, message |-> message, threw |-> threw, pending |-> pending]

Valid == Outcome(TRUE, "", FALSE, FALSE)

Invalid == Outcome(FALSE, "", FALSE, FALSE)

InvalidMsg(m) == Outcome(FALSE, m, FALSE, FALSE)

Threw == Outcome(FALSE, "", TRUE, FALSE)

Pending == Outcome(FALSE, "", FALSE, TRUE)

ValidIf(cond) == IF cond THEN Valid ELSE Invalid

\* try { body } catch { return { valid: false } } inside a validator
CatchInvalid(outcome) == IF outcome.threw THEN Invalid ELSE outcome

validateRequiredNoTrim(value, element) ==
    IF element.node = "undefined" THEN Threw
    ELSE IF element.type = "file"
         THEN ValidIf(Truthy(value) /\ NumGt(LengthOf(value), Finite(0)))
    ELSE IF value.t = "array" THEN ValidIf(Len(value.a) > 0)
    ELSE ValidIf(value.t \notin {"null", "undefined"} /\ ToStr(value) # "")

validateRequired(value, element) ==
    IF element.node = "undefined" THEN Threw
    ELSE IF element.type = "file"
         THEN ValidIf(Truthy(value) /\ NumGt(LengthOf(value), Finite(0)))
    ELSE IF value.t = "array" THEN ValidIf(Len(value.a) > 0)
    ELSE ValidIf(value.t \notin {"null", "undefined"} /\ Trim(ToStr(value)) # "")

\* values.includes(String(targetValue))
SeqIncludes(values, x) == \E k \in 1..Len(values) : values[k] = x

validateRequiredIf(value, parameters, form, attributeType) ==
    IF Len(parameters) < 3 THEN Valid
    ELSE IF SelectorThrows(parameters[1]) THEN Threw
    ELSE LET target   == QuerySelector(form, attributeType, parameters[1])
             operator == parameters[2]
             values   == SubSeq(parameters, 3, Len(parameters))
             shouldBeRequired(listed) ==
                 CASE operator \in {"=", "=="} -> listed
                   [] operator = "!="          -> ~listed
                   [] OTHER                    -> FALSE
         IN  IF target = 0 THEN Valid
             ELSE IF shouldBeRequired(SeqIncludes(values, ToStr(getFieldValue(form, target))))
                  THEN validateRequired(value, ElemArray)
             ELSE Valid

validateString(value) == ValidIf(value.t = "string" \/ value.t \in {"null", "undefined"})

\* /[eE]/.test(s)
HasExponentChar(s) == Includes(s, "e") \/ Includes(s, "E")

validateNumeric(value) ==
    IF IsBlank(value) THEN Valid
    ELSE IF value.t = "string" /\ HasExponentChar(value.s) THEN Invalid
    ELSE ValidIf(~ToNumber(value).nan /\ ~ParseFloat(value).nan)

\* Number.isInteger(num)
IsInteger(num) == ~num.nan /\ num.v % Scale = 0

validateInteger(value) ==
    IF IsBlank(value) THEN Valid
    ELSE IF value.t = "string" /\ HasExponentChar(value.s) THEN Invalid
    ELSE ValidIf(IsInteger(ToNumber(value)))

\* /^[^\s@]+@[^\s@]+\.[^\s@]+$/.test(s)
EmailRegex(s) ==
    LET at == IndexOf(s, "@")
    IN  /\ \A i \in 1..Len(s) : Ch(s, i) \notin WhiteSpace
        /\ at > 1
        /\ IndexOfFrom(s, "@", at + 1) = 0
        /\ \E dot \in (at + 2)..(Len(s) - 1) : Ch(s, dot) = "."

validateEmail(value) ==
    IF IsBlank(value) THEN Valid ELSE ValidIf(EmailRegex(ToStr(value)))

validateArray(value) ==
    IF IsBlank(value) THEN Valid ELSE ValidIf(value.t \in {"string", "array"})

validateFile(value) == ValidIf(Truthy(value) /\ value.t = "files")

\* a File of a FileList: name, size in bytes, MIME type, and the pixel size
\* the browser's image decoder reports for it
File(name, size, type, width, height) ==
    [name |-> name, size |-> size, type |-> type, width |-> width, height |-> height]

\* the default size cap of validateSize, in MB
DefaultMaxSizeMB == 4

BytesPerMB == 1024 * 1024

validateSize(value, parameters, element) ==
    IF ~Truthy(value) \/ LengthOf(value) = Finite(0) THEN Valid
    ELSE LET NoneAbove(maxSize) ==
                 \A k \in 1..Len(value.f) :
                     ~(~maxSize.nan /\ value.f[k].size * Scale > maxSize.v * BytesPerMB)
         IN  IF element.type # "file" THEN Valid
             ELSE ValidIf(NoneAbove(IF Len(parameters) > 0 THEN ParseFloatStr(parameters[1])
                                    ELSE Finite(DefaultMaxSizeMB * Scale)))

\* arr[arr.length - 1] of a non-empty array
Last(arr) == arr[Len(arr)]

\* parameters.map(type => type.toLowerCase())
LowerAll(parameters) == [k \in 1..Len(parameters) |-> ToLowerCase(parameters[k])]

validateMimes(value, parameters) ==
    IF ~Truthy(value) \/ LengthOf(value) = Finite(0) THEN Valid
    ELSE IF value.t # "files" THEN Threw
    ELSE ValidIf(\A k \in 1..Len(value.f) :
                    SeqIncludes(LowerAll(parameters),
                                Last(Split(ToLowerCase(value.f[k].name), "."))))

\* the trimmed text is a number as a whole
IsNumericText(trimmed) ==
    /\ trimmed \notin {"", ".", "-", "+"}
    /\ DecimalPrefix(trimmed).len = Len(trimmed)

isNumericValue(value) ==
    CASE value.t = "number" -> TRUE
      [] value.t = "string" -> IsNumericText(Trim(value.s))
      [] OTHER -> FALSE

\* value.split(',').map(item => item.trim()).filter(item => item !== '')
CommaList(str) ==
    LET items == Split(str, ",")
    IN  SelectSeq([k \in 1..Len(items) |-> Trim(items[k])], LAMBDA item : item # "")

\* parseFloat(parameters[k]) (0-based k): NaN when the parameter is missing
ParamFloat(parameters, k) ==
    IF k + 1 <= Len(parameters) THEN ParseFloatStr(parameters[k + 1]) ELSE NaN

\* the number n as a comparison operand
Count(n) == Finite(n * Scale)

\* validateMin with the length of a string taken before its number
validateMinLengthFirst(value, parameters, element) ==
    LET Compare(min, number) ==
            IF element.type = "file" THEN ValidIf(NumGe(LengthOf(value), min))
            ELSE IF value.t = "string" THEN ValidIf(NumGe(Count(Len(value.s)), min))
            ELSE IF value.t = "array" THEN ValidIf(NumGe(Count(Len(value.a)), min))
            ELSE ValidIf(NumGe(number, min))
    IN  IF IsBlank(value) THEN Valid
        ELSE Compare(ParamFloat(parameters, 0), ParseFloat(value))

\* min is parseFloat(parameters[0]), number is parseFloat(value)
validateMin(value, parameters, element) ==
    LET Compare(min, number) ==
            IF element.type = "file" THEN ValidIf(NumGe(LengthOf(value), min))
            ELSE IF isNumericValue(value) THEN ValidIf(NumGe(number, min))
            ELSE IF value.t = "array" THEN ValidIf(NumGe(Count(Len(value.a)), min))
            ELSE IF value.t = "string" /\ Includes(value.s, ",")
                 THEN ValidIf(NumGe(Count(Len(CommaList(value.s))), min))
            ELSE IF value.t = "string" THEN ValidIf(NumGe(Count(Len(value.s)), min))
            ELSE ValidIf(NumGe(number, min))
    IN  IF IsBlank(value) THEN Valid
        ELSE Compare(ParamFloat(parameters, 0), ParseFloat(value))

\* max is parseFloat(parameters[0]), number is parseFloat(value)
validateMax(value, parameters, element) ==
    LET Compare(max, number) ==
            IF element.type = "file" THEN ValidIf(NumLe(LengthOf(value), max))
            ELSE IF isNumericValue(value) THEN ValidIf(NumLe(number, max))
            ELSE IF value.t = "array" THEN ValidIf(NumLe(Count(Len(value.a)), max))
            ELSE IF value.t = "string" /\ Includes(value.s, ",")
                 THEN ValidIf(NumLe(Count(Len(CommaList(value.s))), max))
            ELSE IF value.t = "string" THEN ValidIf(NumLe(Count(Len(value.s)), max))
            ELSE ValidIf(NumLe(number, max))
    IN  IF IsBlank(value) THEN Valid
        ELSE Compare(ParamFloat(parameters, 0), ParseFloat(value))

\* hours * 60 + minutes, NaN when either is
HoursAndMinutes(hours, minutes) ==
    IF hours.nan \/ minutes.nan THEN NaN ELSE Finite(hours.v * 60 + minutes.v)

\* timeToMinutes(timeStr): hours * 60 + minutes of "HH:MM"
TimeToMinutes(timeStr) ==
    LET parts == Split(timeStr, ":")
    IN  HoursAndMinutes(ToNumberStr(parts[1]),
                        IF Len(parts) >= 2 THEN ToNumberStr(parts[2]) ELSE NaN)

\* x >= min && x <= max
Within(x, min, max) == ValidIf(NumGe(x, min) /\ NumLe(x, max))

\* min and max are parseFloat(parameters[0]) and parseFloat(parameters[1])
validateBetween(value, parameters, element) ==
    LET Compare(min, max) ==
            IF value.t = "string" THEN Within(Count(Len(value.s)), min, max)
            ELSE Within(ParseFloat(value), min, max)
    IN  IF IsBlank(value) THEN Valid
        ELSE IF element.type = "time"
             THEN IF value.t # "string" \/ Len(parameters) < 2 THEN Threw
                  ELSE Within(TimeToMinutes(value.s), TimeToMinutes(parameters[1]),
                              TimeToMinutes(parameters[2]))
        ELSE Compare(ParamFloat(parameters, 0), ParamFloat(parameters, 1))

\* `${parameters[k]}` (0-based k) inside a template literal
ParamText(parameters, k) ==
    IF k + 1 <= Len(parameters) THEN parameters[k + 1] ELSE "undefined"

validateConfirmed(value, element, form, attributeType) ==
    LET confirmationFieldName == GetAttribute(element, attributeType) \o "_confirmation"
        confirmationElement   == QuerySelector(form, attributeType, confirmationFieldName)
    IN  IF SelectorThrows(confirmationFieldName) THEN Threw
        ELSE IF confirmationElement = 0 THEN InvalidMsg("Confirmation field not found")
        ELSE ValidIf(StrictEq(value, getFieldValue(form, confirmationElement)))

\* validateSame with an absent compare field reported like a mismatch
validateSameNoMessage(value, parameters, form, attributeType) ==
    LET compareElement == QuerySelector(form, attributeType, ParamText(parameters, 0))
    IN  IF SelectorThrows(ParamText(parameters, 0)) THEN Threw
        ELSE IF compareElement = 0 THEN Invalid
        ELSE ValidIf(StrictEq(value, getFieldValue(form, compareElement)))

validateSame(value, parameters, form, attributeType) ==
    LET compareElement == QuerySelector(form, attributeType, ParamText(parameters, 0))
    IN  IF SelectorThrows(ParamText(parameters, 0)) THEN Threw
        ELSE IF compareElement = 0 THEN InvalidMsg("Comparison field not found")
        ELSE ValidIf(StrictEq(value, getFieldValue(form, compareElement)))

validateDifferent(value, parameters, form, attributeType) ==
    LET compareElement == QuerySelector(form, attributeType, ParamText(parameters, 0))
    IN  IF SelectorThrows(ParamText(parameters, 0)) THEN Threw
        ELSE IF compareElement = 0 THEN Valid
        ELSE ValidIf(~StrictEq(value, getFieldValue(form, compareElement)))

validateIn(value, parameters) ==
    IF IsBlank(value) THEN Valid ELSE ValidIf(SeqIncludes(parameters, ToStr(value)))

validateNotIn(value, parameters) ==
    IF IsBlank(value) THEN Valid ELSE ValidIf(~SeqIncludes(parameters, ToStr(value)))

validateAlpha(value) ==
    IF IsBlank(value) THEN Valid
    ELSE ValidIf(AllIn(ToStr(value), LowerLetters \cup UpperLetters))

validateAlphaNum(value) ==
    IF IsBlank(value) THEN Valid
    ELSE ValidIf(AllIn(ToStr(value), LowerLetters \cup UpperLetters \cup Digits))

validateAlphaDash(value) ==
    IF IsBlank(value) THEN Valid
    ELSE ValidIf(AllIn(ToStr(value), LowerLetters \cup UpperLetters \cup Digits \cup {"_", "-"}))

\* parseInt(parameters[k]) (0-based k): NaN when the parameter is missing
ParamInt(parameters, k) ==
    IF k + 1 <= Len(parameters) THEN ParseIntStr(parameters[k + 1]) ELSE NaN

validateMinLength(value, parameters) ==
    IF IsBlank(value) THEN Valid
    ELSE ValidIf(NumGe(Count(Len(ToStr(value))), ParamInt(parameters, 0)))

validateMaxLength(value, parameters) ==
    IF IsBlank(value) THEN Valid
    ELSE ValidIf(NumLe(Count(Len(ToStr(value))), ParamInt(parameters, 0)))

validateLowercase(value) ==
    IF IsBlank(value) THEN Valid ELSE ValidIf(ToLowerCase(ToStr(value)) = ToStr(value))

validateUppercase(value) ==
    IF IsBlank(value) THEN Valid ELSE ValidIf(ToUpperCase(ToStr(value)) = ToStr(value))

validateDigits(value, parameters) ==
    IF IsBlank(value) THEN Valid
    ELSE ValidIf(/\ AllIn(ToStr(value), Digits)
                 /\ Count(Len(ToStr(value))) = ParamInt(parameters, 0))

validateDigitsBetween(value, parameters) ==
    IF IsBlank(value) THEN Valid
    ELSE ValidIf(/\ AllIn(ToStr(value), Digits)
                 /\ NumGe(Count(Len(ToStr(value))), ParamInt(parameters, 0))
                 /\ NumLe(Count(Len(ToStr(value))), ParamInt(parameters, 1)))

\* /^([01]?[0-9]|2[0-3]):[0-5][0-9]$/.test(s)
TimeRegex(s) ==
    LET colon == IndexOf(s, ":")
        hh    == SubSeq(s, 1, colon - 1)
        mm    == SliceFrom(s, colon + 1)
    IN  /\ colon \in {2, 3}
        /\ AllIn(hh, Digits) /\ ToNat(hh) <= 23
        /\ Len(mm) = 2 /\ AllIn(mm, Digits) /\ ToNat(mm) <= 59

validateTime(value) ==
    IF IsBlank(value) THEN Valid ELSE ValidIf(TimeRegex(ToStr(value)))

\* ['true', 'false', '1', '0', 1, 0, true, false].includes(value)
validateBoolean(value) ==
    IF IsBlank(value) THEN Valid
    ELSE ValidIf(\/ value.t = "boolean"
                 \/ (value.t = "string" /\ value.s \in {"true", "false", "1", "0"})
                 \/ (value.t = "number" /\ value.n \in {0, Scale}))

\* [true, 'true', 1, '1', 'yes', 'on'].includes(value)
validateAccepted(value) ==
    ValidIf(\/ (value.t = "boolean" /\ value.b)
            \/ (value.t = "string" /\ value.s \in {"true", "1", "yes", "on"})
            \/ (value.t = "number" /\ value.n = Scale))

validateNullable(value) == Valid

\* fieldValue !== null && fieldValue !== undefined && String(fieldValue).trim() !== ''
HasValue(v) == v.t \notin {"null", "undefined"} /\ Trim(ToStr(v)) # ""

\* The loop of validateRequiredWith over the listed fields, from the k-th on:
\* "throws" when a selector is invalid, "value" at the first listed field that
\* exists and has a value (the loop breaks there), "none" when the list ends.
RECURSIVE RequiredWithScan(_, _, _, _)
RequiredWithScan(parameters, k, form, attributeType) ==
    IF k > Len(parameters) THEN "none"
    ELSE IF SelectorThrows(parameters[k]) THEN "throws"
    ELSE LET fieldElement == QuerySelector(form, attributeType, parameters[k])
         IN  IF fieldElement # 0 /\ HasValue(getFieldValue(form, fieldElement))
             THEN "value"
             ELSE RequiredWithScan(parameters, k + 1, form, attributeType)

\* validateRequired(value) is called without its element argument
validateRequiredWith(value, parameters, form, attributeType) ==
    LET scan == RequiredWithScan(parameters, 1, form, attributeType)
    IN  CatchInvalid(
            CASE scan = "throws" -> Threw
              [] scan = "value"  -> validateRequired(value, ElemUndefined)
              [] OTHER           -> Valid)

validateRequiredUnless(value, parameters, form, attributeType) ==
    LET fieldElement == QuerySelector(form, attributeType, parameters[1])
    IN  CatchInvalid(
            IF Len(parameters) < 2 THEN Valid
            ELSE IF SelectorThrows(parameters[1]) THEN Threw
            ELSE IF fieldElement = 0 THEN validateRequired(value, ElemUndefined)
            ELSE IF SeqIncludes(Tail(parameters), ToStr(getFieldValue(form, fieldElement)))
                 THEN Valid
            ELSE validateRequired(value, ElemUndefined))

validateContains(value, parameters) ==
    IF IsBlank(value) THEN Valid
    ELSE ValidIf(\A k \in 1..Len(parameters) : Includes(ToStr(value), parameters[k]))

validateDoesntContain(value, parameters) ==
    IF IsBlank(value) THEN Valid
    ELSE ValidIf(\A k \in 1..Len(parameters) : ~Includes(ToStr(value), parameters[k]))

\* The comparand of gt / lt / lte: the value of the field parameters[0] names
\* when the form has one, else the parameter itself.
CompareValue(parameters, form, attributeType) ==
    LET compareElement == QuerySelector(form, attributeType, parameters[1])
    IN  IF compareElement # 0 THEN getFieldValue(form, compareElement)
        ELSE Str(parameters[1])

\* validateGreaterThan with the parameter always taken as a literal
validateGreaterThanLiteral(value, parameters, form, attributeType) ==
    IF IsBlank(value) THEN Valid
    ELSE IF Len(parameters) = 0 THEN Invalid
    ELSE IF SelectorThrows(parameters[1]) THEN CatchInvalid(Threw)
    ELSE IF isNumericValue(value) /\ isNumericValue(Str(parameters[1]))
         THEN ValidIf(NumGt(ParseFloat(value), ParseFloat(Str(parameters[1]))))
    ELSE ValidIf(Len(ToStr(value)) > Len(parameters[1]))

validateGreaterThan(value, parameters, form, attributeType) ==
    IF IsBlank(value) THEN Valid
    ELSE IF Len(parameters) = 0 THEN Invalid
    ELSE IF SelectorThrows(parameters[1]) THEN CatchInvalid(Threw)
    ELSE LET compareValue == CompareValue(parameters, form, attributeType)
         IN  IF isNumericValue(value) /\ isNumericValue(compareValue)
             THEN ValidIf(NumGt(ParseFloat(value), ParseFloat(compareValue)))
             ELSE ValidIf(Len(ToStr(value)) > Len(ToStr(compareValue)))

validateLessThan(value, parameters, form, attributeType) ==
    IF IsBlank(value) THEN Valid
    ELSE IF Len(parameters) = 0 THEN Invalid
    ELSE IF SelectorThrows(parameters[1]) THEN CatchInvalid(Threw)
    ELSE LET compareValue == CompareValue(parameters, form, attributeType)
         IN  IF isNumericValue(value) /\ isNumericValue(compareValue)
             THEN ValidIf(NumLt(ParseFloat(value), ParseFloat(compareValue)))
             ELSE ValidIf(Len(ToStr(value)) < Len(ToStr(compareValue)))

validateLessThanOrEqual(value, parameters, form, attributeType) ==
    IF IsBlank(value) THEN Valid
    ELSE IF Len(parameters) = 0 THEN Invalid
    ELSE IF SelectorThrows(parameters[1]) THEN CatchInvalid(Threw)
    ELSE LET compareValue == CompareValue(parameters, form, attributeType)
         IN  IF isNumericValue(value) /\ isNumericValue(compareValue)
             THEN ValidIf(NumLe(ParseFloat(value), ParseFloat(compareValue)))
             ELSE ValidIf(Len(ToStr(value)) <= Len(ToStr(compareValue)))

\* the image types validateDimensions decodes
DecodableImageTypes == {"image/jpeg", "image/png", "image/gif", "image/webp", "image/bmp"}

\* the image types validateImage accepts
ImageTypes == DecodableImageTypes \cup {"image/svg+xml", "image/tiff"}

\* A decodable image makes validateDimensions return a Promise, not an outcome.
validateDimensions(value, parameters) ==
    IF IsBlank(value) \/ ~Truthy(value) \/ LengthOf(value) \in {NaN, Finite(0)} THEN Valid
    ELSE IF value.t # "files" THEN Invalid
    ELSE IF value.f[1].type \notin DecodableImageTypes THEN Valid
    ELSE Pending

validateImage(value) ==
    IF IsBlank(value) \/ ~Truthy(value) THEN Valid
    ELSE IF value.t # "files" THEN Invalid
    ELSE IF Len(value.f) = 0 THEN Valid
    ELSE ValidIf(value.f[1].type \in ImageTypes)

\* the default maximum length of validateCurrency
DefaultCurrencyLength == 16

validateCurrency(value, parameters) ==
    LET maxLength == IF Len(parameters) > 0 THEN ParseIntStr(parameters[1])
                     ELSE Count(DefaultCurrencyLength)
        valueStr  == ToStr(value)
        parts     == Split(valueStr, ".")
    IN  IF IsBlank(value) THEN Valid
        ELSE IF NumGt(Count(Len(valueStr)), maxLength) THEN Invalid
        ELSE IF HasExponentChar(valueStr) THEN Invalid
        ELSE IF ~AllIn(valueStr, Digits \cup {",", "."}) THEN Invalid
        ELSE IF Len(parts) > 2 THEN Invalid
        ELSE IF Len(parts) = 2 /\ ~AllIn(parts[2], Digits) THEN Invalid
        ELSE Valid

\* /^[+-]?\d*\.?\d+$/.test(s)
DecimalRegex(s) ==
    LET body == IF Ch(s, 1) \in {"+", "-"} THEN SliceFrom(s, 2) ELSE s
        dot  == IndexOf(body, ".")
    IN  IF dot = 0 THEN AllIn(body, Digits)
        ELSE /\ \A i \in 1..(dot - 1) : Ch(body, i) \in Digits
             /\ AllIn(SliceFrom(body, dot + 1), Digits)

validateDecimal(value, parameters) ==
    LET minDecimalPlaces == IF Len(parameters) = 0 THEN Count(1) ELSE ParamInt(parameters, 0)
        bounded          == Len(parameters) > 0
        maxDecimalPlaces == IF Len(parameters) = 1 THEN minDecimalPlaces
                            ELSE ParamInt(parameters, 1)
        parts            == Split(ToStr(value), ".")
        decimalPlaces    == Count(Len(parts[2]))
    IN  IF IsBlank(value) THEN Valid
        ELSE IF ~DecimalRegex(ToStr(value)) THEN Invalid
        ELSE IF Len(parts) = 1 THEN ValidIf(minDecimalPlaces = Count(0))
        ELSE IF bounded
             THEN ValidIf(/\ NumGe(decimalPlaces, minDecimalPlaces)
                          /\ NumLe(decimalPlaces, maxDecimalPlaces))
        ELSE ValidIf(NumGe(decimalPlaces, minDecimalPlaces))

\* regexString.replace(/^\/|\/$/g, ''): one leading and one trailing slash go
CleanRegex(regexString) ==
    LET a == IF StartsWith(regexString, "/") THEN SliceFrom(regexString, 2) ELSE regexString
    IN  IF EndsWith(a, "/") THEN SubSeq(a, 1, Len(a) - 1) ELSE a

\* new RegExp(pattern).test(s) for the patterns the modelled rules use:
\* anchored character classes; "[" is a pattern that does not compile.
RegExpCompiles(pattern) == pattern # "["

RegExpTest(pattern, s) ==
    CASE pattern = "^[a-z]+$" -> AllIn(s, LowerLetters)
      [] pattern = "^[A-Z]+$" -> AllIn(s, UpperLetters)
      [] pattern = "^[0-9]+$" -> AllIn(s, Digits)
      [] pattern = ""         -> TRUE

validateRegex(value, parameters) ==
    IF IsBlank(value) THEN Valid
    ELSE IF Len(parameters) = 0 THEN InvalidMsg("Invalid regex pattern")
    ELSE IF ~RegExpCompiles(CleanRegex(parameters[1])) THEN InvalidMsg("Invalid regex pattern")
    ELSE ValidIf(RegExpTest(CleanRegex(parameters[1]), ToStr(value)))

\* JSON.parse(s) returns, for the JSON texts of the modelled inputs: a number,
\* a literal, a string without escapes, an empty object or array
JsonParses(s) ==
    LET t == Trim(s)
    IN  \/ t \in {"true", "false", "null", "{}", "[]"}
        \/ (Len(t) >= 2 /\ Ch(t, 1) = "\"" /\ Ch(t, Len(t)) = "\""
              /\ ~Includes(SubSeq(t, 2, Len(t) - 1), "\"")
              /\ ~Includes(SubSeq(t, 2, Len(t) - 1), "\\"))
        \/ (/\ Ch(t, 1) \in Digits \cup {"-"}
            /\ DecimalPrefix(t).len = Len(t)
            /\ DigitRun(t, IF Ch(t, 1) = "-" THEN 2 ELSE 1) > 0
            /\ Ch(t, Len(t)) # "."
            /\ ~(Ch(t, 1) = "0" /\ Ch(t, 2) \in Digits))

validateJson(value) ==
    IF IsBlank(value) THEN Valid ELSE ValidIf(JsonParses(ToStr(value)))

\* new URL(s) returns: s starts with a scheme and ':', and a special scheme
\* (http, https, ftp, ws, wss) is followed by a host
UrlParses(s) ==
    LET colon  == IndexOf(s, ":")
        scheme == ToLowerCase(SubSeq(s, 1, colon - 1))
        rest   == SliceFrom(s, colon + 1)
        host   == IF StartsWith(rest, "//") THEN SliceFrom(rest, 3) ELSE rest
    IN  /\ colon > 1
        /\ Ch(scheme, 1) \in LowerLetters
        /\ AllIn(scheme, LowerLetters \cup Digits \cup {"+", "-", "."})
        /\ \A i \in 1..Len(s) : Ch(s, i) # " "
        /\ (scheme \in {"http", "https", "ftp", "ws", "wss"} => host # "" /\ Ch(host, 1) # "/")

validateUrl(value) ==
    IF IsBlank(value) THEN Valid ELSE ValidIf(UrlParses(ToStr(value)))

\* (25[0-5]|2[0-4][0-9]|[01]?[0-9][0-9]?): one to three digits, at most 255
OctetRegex(s) == Len(s) <= 3 /\ AllIn(s, Digits) /\ ToNat(s) <= 255

Ipv4Regex(s) ==
    LET parts == Split(s, ".")
    IN  Len(parts) = 4 /\ \A k \in 1..4 : OctetRegex(parts[k])

validateIpv4(value) ==
    IF IsBlank(value) THEN Valid ELSE ValidIf(Ipv4Regex(ToStr(value)))

HexDigits == Digits \cup {"a", "b", "c", "d", "e", "f", "A", "B", "C", "D", "E", "F"}

\* [0-9a-fA-F]{1,4}
HexGroup(s) == Len(s) <= 4 /\ AllIn(s, HexDigits)

\* The colon-hex alternatives of ipv6Regex: eight groups, or fewer groups
\* around one "::".  (Its zone-id and embedded-IPv4 alternatives need '%' or
\* '.', which the modelled inputs do not hold.)
Ipv6Regex(s) ==
    LET dc     == IndexOf(s, "::")
        left   == SubSeq(s, 1, dc - 1)
        right  == SliceFrom(s, dc + 2)
        lg     == IF left = "" THEN <<>> ELSE Split(left, ":")
        rg     == IF right = "" THEN <<>> ELSE Split(right, ":")
        groups == Split(s, ":")
    IN  IF dc = 0 THEN Len(groups) = 8 /\ \A k \in 1..8 : HexGroup(groups[k])
        ELSE /\ Len(lg) + Len(rg) <= 7
             /\ \A k \in 1..Len(lg) : HexGroup(lg[k])
             /\ \A k \in 1..Len(rg) : HexGroup(rg[k])

validateIpv6(value) ==
    IF IsBlank(value) THEN Valid ELSE ValidIf(Ipv6Regex(ToStr(value)))

validateIp(value) ==
    IF IsBlank(value) THEN Valid
    ELSE ValidIf(validateIpv4(value).valid \/ validateIpv6(value).valid)

\* /^[0-9a-f]{8}-[0-9a-f]{4}-[1-5][0-9a-f]{3}-[89ab][0-9a-f]{3}-[0-9a-f]{12}$/i
UuidRegex(s) ==
    /\ Len(s) = 36
    /\ \A i \in 1..36 : IF i \in {9, 14, 19, 24} THEN Ch(s, i) = "-"
                        ELSE Ch(s, i) \in HexDigits
    /\ Ch(s, 15) \in {"1", "2", "3", "4", "5"}
    /\ Ch(s, 20) \in {"8", "9", "a", "b", "A", "B"}

validateUuid(value) ==
    IF IsBlank(value) THEN Valid ELSE ValidIf(UuidRegex(ToStr(value)))

(***************************************************************************)
(* The host's Date.  A time value is a count of minutes since the epoch   *)
(* (NaN for an Invalid Date); the page runs in UTC.                        *)
(***************************************************************************)
IsLeap(y) == (y % 4 = 0 /\ y % 100 # 0) \/ y % 400 = 0

DaysInMonth(y, m) ==
    IF m = 2 THEN (IF IsLeap(y) THEN 29 ELSE 28)
    ELSE IF m \in {4, 6, 9, 11} THEN 30 ELSE 31

\* days from 1970-01-01 to the civil date y-m-d (m in 1..12)
DaysFromCivil(y, m, d) ==
    LET yy  == IF m <= 2 THEN y - 1 ELSE y
        era == yy \div 400
        yoe == yy - era * 400
        mp  == IF m > 2 THEN m - 3 ELSE m + 9
        doy == (153 * mp + 2) \div 5 + d - 1
        doe == yoe * 365 + yoe \div 4 - yoe \div 100 + doy
    IN  era * 146097 + doe - 719468

\* the civil date of a day count
CivilFromDays(days) ==
    LET z   == days + 719468
        era == z \div 146097
        doe == z - era * 146097
        yoe == (doe - doe \div 1460 + doe \div 36524 - doe \div 146096) \div 365
        doy == doe - (365 * yoe + yoe \div 4 - yoe \div 100)
        mp  == (5 * doy + 2) \div 153
        m   == IF mp < 10 THEN mp + 3 ELSE mp - 9
    IN  [y |-> yoe + era * 400 + (IF m <= 2 THEN 1 ELSE 0),
         m |-> m,
         d |-> doy - (153 * mp + 2) \div 5 + 1]

MinutesPerDay == 24 * 60

\* new Date(year, monthIndex, day): out-of-range months and days roll over;
\* a NaN argument gives an Invalid Date
DateOf(year, monthIndex, day) ==
    IF year.nan \/ monthIndex.nan \/ day.nan THEN NaN
    ELSE LET y  == year.v \div Scale + (monthIndex.v \div Scale) \div 12
             mi == (monthIndex.v \div Scale) % 12
         IN  Finite((DaysFromCivil(y, mi + 1, 1) + day.v \div Scale - 1) * MinutesPerDay)

\* s as a fixed-width run of digits, or NaN
FixedDigits(s, width) == IF Len(s) = width /\ AllIn(s, Digits) THEN Finite(ToNat(s)) ELSE NaN

\* s[from..to] as two digits (1-based, inclusive), or NaN
TwoDigits(s, from) == IF from + 1 <= Len(s) THEN FixedDigits(SubSeq(s, from, from + 1), 2) ELSE NaN

\* The time-zone designator of an ISO 8601 text: "" (none), "Z" or "+hh:mm" /
\* "-hh:mm"; ok says it is one of these, mins is its offset in minutes.
ZoneOffset(z, hh, mm) ==
    IF z \in {"", "Z"} THEN [ok |-> TRUE, mins |-> 0]
    ELSE IF /\ Len(z) = 6 /\ Ch(z, 1) \in {"+", "-"} /\ Ch(z, 4) = ":"
            /\ ~hh.nan /\ ~mm.nan /\ hh.v <= 23 /\ mm.v <= 59
         THEN [ok |-> TRUE,
               mins |-> IF Ch(z, 1) = "-" THEN 0 - (hh.v * 60 + mm.v) ELSE hh.v * 60 + mm.v]
    ELSE [ok |-> FALSE, mins |-> 0]

ZoneOf(z) == ZoneOffset(z, TwoDigits(z, 2), TwoDigits(z, 5))

\* new Date(s) for the ISO 8601 texts "YYYY-MM-DD", "YYYY-MM-DDTHH:mm" and
\* "YYYY-MM-DDTHH:mm:ss", the last with an optional ".sss" and zone: a real
\* calendar date and a time of day.  Every other text is an Invalid Date
\* here (engines differ on non-ISO texts).
\* the time value of the text s whose fields read y, m, d, hh, mi, ss and
\* whose zone designator reads zone
DateOfFields(s, y, m, d, hh, mi, ss, zone) ==
    LET dateOk == /\ Len(s) >= 10 /\ Ch(s, 5) = "-" /\ Ch(s, 8) = "-"
                  /\ ~y.nan /\ ~m.nan /\ ~d.nan
                  /\ m.v \in 1..12 /\ d.v \in 1..DaysInMonth(y.v, m.v)
        hmOk   == /\ Ch(s, 11) = "T" /\ Ch(s, 14) = ":"
                  /\ ~hh.nan /\ ~mi.nan /\ hh.v <= 23 /\ mi.v <= 59
        timeOk == \/ Len(s) = 10
                  \/ (Len(s) = 16 /\ hmOk)
                  \/ (Len(s) >= 19 /\ hmOk /\ Ch(s, 17) = ":" /\ ~ss.nan /\ ss.v <= 59
                        /\ zone.ok)
        mins   == IF Len(s) = 10 THEN 0
                  ELSE hh.v * 60 + mi.v - (IF Len(s) >= 19 THEN zone.mins ELSE 0)
    IN  IF dateOk /\ timeOk
        THEN Finite(DaysFromCivil(y.v, m.v, d.v) * MinutesPerDay + mins)
        ELSE NaN

DateParse(s) ==
    LET millis == Len(s) >= 23 /\ Ch(s, 20) = "." /\ AllIn(SubSeq(s, 21, 23), Digits)
    IN  DateOfFields(s, FixedDigits(SubSeq(s, 1, IF Len(s) >= 4 THEN 4 ELSE 0), 4),
                     TwoDigits(s, 6), TwoDigits(s, 9), TwoDigits(s, 12), TwoDigits(s, 15),
                     TwoDigits(s, 18), ZoneOf(SliceFrom(s, IF millis THEN 24 ELSE 20)))

MillisPerMinute == 60 * 1000

\* new Date(value) for any value the validators pass
DateFrom(v) ==
    CASE v.t \in {"string", "array"} -> DateParse(ToStr(v))
      [] v.t = "number"            -> Finite((v.n \div Scale) \div MillisPerMinute)
      [] v.t \in {"boolean", "null"} -> Finite(0)
      [] OTHER                     -> NaN

\* n as text, left-padded with zeros to the given width
Pad(n, width) ==
    LET txt == NatToString(n)
    IN  SubSeq("0000", 1, width - Len(txt)) \o txt

\* YYYY-MM-DD of a civil date
IsoText(c) == Pad(c.y, 4) \o "-" \o Pad(c.m, 2) \o "-" \o Pad(c.d, 2)

\* date.toISOString().split('T')[0]
IsoDay(date) == IsoText(CivilFromDays(date.v \div MinutesPerDay))

\* date.getDay(): 0 is Sunday
GetDay(date) == ((date.v \div MinutesPerDay) + 4) % 7

validateDate(value) ==
    IF IsBlank(value) THEN Valid ELSE ValidIf(~DateFrom(value).nan)

validateAfter(value, parameters) ==
    IF IsBlank(value) THEN Valid
    ELSE ValidIf(NumGt(DateFrom(value), DateFrom(Param(parameters, 0))))

validateBefore(value, parameters) ==
    IF IsBlank(value) THEN Valid
    ELSE ValidIf(NumLt(DateFrom(value), DateFrom(Param(parameters, 0))))

\* The comparand of after_or_equal / before_or_equal: the date in the field
\* parameters[0] names when the form has one, else the parameter as a date.
CompareDate(parameters, form, attributeType) ==
    LET compareElement == QuerySelector(form, attributeType, ParamText(parameters, 0))
    IN  DateFrom(IF compareElement # 0 THEN getFieldValue(form, compareElement)
                 ELSE Param(parameters, 0))

validateAfterOrEqual(value, parameters, form, attributeType) ==
    IF IsBlank(value) THEN Valid
    ELSE IF SelectorThrows(ParamText(parameters, 0)) THEN Threw
    ELSE ValidIf(NumGe(DateFrom(value), CompareDate(parameters, form, attributeType)))

validateBeforeOrEqual(value, parameters, form, attributeType) ==
    IF IsBlank(value) THEN Valid
    ELSE IF SelectorThrows(ParamText(parameters, 0)) THEN Threw
    ELSE ValidIf(NumLe(DateFrom(value), CompareDate(parameters, form, attributeType)))

\* day === 0 || day === 6 of a valid date
IsWeekend(date) == ~date.nan /\ GetDay(date) \in {0, 6}

validateWeekend(value) ==
    IF IsBlank(value) THEN Valid ELSE ValidIf(IsWeekend(DateFrom(value)))

(***************************************************************************)
(* date_format.  Each supported format name maps to the shape of its       *)
(* regular expression, written with one letter per piece: Y is \d{4}, N is *)
(* \d{2}, n is \d{1,2}, W is [A-Za-z]+, w is [A-Za-z]{3}, P is (AM|PM)     *)
(* ignoring case, Z is ([+-]\d{2}:\d{2}|Z), F is (\.\d{3})?; any other     *)
(* character stands for itself.                                            *)
(***************************************************************************)
DateFormats ==
    {"Y-m-d", "YYYY-MM-DD", "Y/m/d", "YYYY/MM/DD", "m/d/Y", "MM/DD/YYYY",
     "m-d-Y", "MM-DD-YYYY", "d/m/Y", "DD/MM/YYYY", "d-m-Y", "DD-MM-YYYY",
     "d.m.Y", "DD.MM.YYYY", "Y-m-d H:i", "YYYY-MM-DD HH:mm", "Y-m-d H:i:s",
     "YYYY-MM-DD HH:mm:ss", "H:i", "HH:mm", "H:i:s", "HH:mm:ss", "h:i A",
     "hh:mm A", "c", "ISO8601", "m/Y", "MM/YYYY", "m-Y", "MM-YYYY",
     "F j, Y", "M j, Y", "j F Y", "j M Y"}

formatPatterns(format) ==
    CASE format = "Y-m-d"               -> "Y-n-n"
      [] format = "YYYY-MM-DD"          -> "Y-N-N"
      [] format = "Y/m/d"               -> "Y/n/n"
      [] format = "YYYY/MM/DD"          -> "Y/N/N"
      [] format \in {"m/d/Y", "d/m/Y"}  -> "n/n/Y"
      [] format \in {"MM/DD/YYYY", "DD/MM/YYYY"} -> "N/N/Y"
      [] format \in {"m-d-Y", "d-m-Y"}  -> "n-n-Y"
      [] format \in {"MM-DD-YYYY", "DD-MM-YYYY"} -> "N-N-Y"
      [] format = "d.m.Y"               -> "n.n.Y"
      [] format = "DD.MM.YYYY"          -> "N.N.Y"
      [] format = "Y-m-d H:i"           -> "Y-n-n n:N"
      [] format = "YYYY-MM-DD HH:mm"    -> "Y-N-N N:N"
      [] format = "Y-m-d H:i:s"         -> "Y-n-n n:N:N"
      [] format = "YYYY-MM-DD HH:mm:ss" -> "Y-N-N N:N:N"
      [] format = "H:i"                 -> "n:N"
      [] format = "HH:mm"               -> "N:N"
      [] format = "H:i:s"               -> "n:N:N"
      [] format = "HH:mm:ss"            -> "N:N:N"
      [] format = "h:i A"               -> "n:N P"
      [] format = "hh:mm A"             -> "N:N P"
      [] format = "c"                   -> "Y-N-NTN:N:NZ"
      [] format = "ISO8601"             -> "Y-N-NTN:N:NFZ"
      [] format = "m/Y"                 -> "n/Y"
      [] format = "MM/YYYY"             -> "N/Y"
      [] format = "m-Y"                 -> "n-Y"
      [] format = "MM-YYYY"             -> "N-Y"
      [] format = "F j, Y"              -> "W n, Y"
      [] format = "M j, Y"              -> "w n, Y"
      [] format = "j F Y"               -> "n W Y"
      [] format = "j M Y"               -> "n w Y"

\* the lengths of the prefixes of s that the shape letter c can match
PieceLengths(c, s) ==
    LET digits(k)  == Len(s) >= k /\ AllIn(SubSeq(s, 1, k), Digits)
        letters(k) == Len(s) >= k /\ AllIn(SubSeq(s, 1, k), LowerLetters \cup UpperLetters)
    IN  CASE c = "Y" -> {k \in {4} : digits(k)}
          [] c = "N" -> {k \in {2} : digits(k)}
          [] c = "n" -> {k \in {1, 2} : digits(k)}
          [] c = "W" -> {k \in 1..Len(s) : letters(k)}
          [] c = "w" -> {k \in {3} : letters(k)}
          [] c = "P" -> {k \in {2} : Len(s) >= 2 /\ ToUpperCase(SubSeq(s, 1, 2)) \in {"AM", "PM"}}
          [] c = "Z" -> {k \in {1} : Ch(s, 1) = "Z"}
                          \cup {k \in {6} : /\ Len(s) >= 6 /\ Ch(s, 1) \in {"+", "-"}
                                            /\ AllIn(SubSeq(s, 2, 3), Digits) /\ Ch(s, 4) = ":"
                                            /\ AllIn(SubSeq(s, 5, 6), Digits)}
          [] c = "F" -> {0} \cup {k \in {4} : /\ Len(s) >= 4 /\ Ch(s, 1) = "."
                                              /\ AllIn(SubSeq(s, 2, 4), Digits)}
          [] OTHER   -> {k \in {1} : Ch(s, 1) = c}

\* regex.test(s) for the regular expression of the given shape
RECURSIVE MatchShape(_, _)
MatchShape(s, shape) ==
    IF shape = "" THEN s = ""
    ELSE \E k \in PieceLengths(Ch(shape, 1), s) :
            MatchShape(SliceFrom(s, k + 1), SliceFrom(shape, 2))

\* format.match(/^[HhMmSsAi:\s]+$/): a time-only format
IsTimeFormat(format) == AllIn(format, {"H", "h", "M", "m", "S", "s", "A", "i", ":", " "})

\* value.split(/[-\s]/)
SplitDashSpace(s) ==
    LET cut == {i \in 1..Len(s) : Ch(s, i) \in WhiteSpace \cup {"-"}}
        RECURSIVE from(_)
        from(i) ==
            LET next == {j \in cut : j >= i}
            IN  IF next = {} THEN <<SliceFrom(s, i)>>
                ELSE LET j == CHOOSE j \in next : \A k \in next : j <= k
                     IN  <<SubSeq(s, i, j - 1)>> \o from(j + 1)
    IN  from(1)

\* Number(parts[k]) (0-based k): NaN when the part is missing (undefined)
PartNum(parts, k) == IF k + 1 <= Len(parts) THEN ToNumberStr(parts[k + 1]) ELSE NaN

\* x - 1 on a number
MinusOne(x) == IF x.nan THEN NaN ELSE Finite(x.v - Scale)

\* The time-only branch of validateDateLogic.  A PM hour other than 12 is
\* replaced by a number, and hours.padStart then throws.
\* hours.padStart(2, '0')
PadStart2(hours) ==
    IF Len(hours) < 2 THEN SubSeq("00", 1, 2 - Len(hours)) \o hours ELSE hours

\* the Date of the time whose parts are split at ':' and whose hour reads hour
TimeOfParts(isPM, isAM, parts, hour) ==
    IF isPM /\ hour # Count(12)
    THEN [threw |-> TRUE, date |-> NaN]
    ELSE [threw |-> FALSE,
          date  |-> DateParse("1970-01-01T"
                       \o PadStart2(IF ~isPM /\ isAM /\ hour = Count(12) THEN "00" ELSE parts[1])
                       \o ":" \o (IF Len(parts) >= 2 THEN parts[2] ELSE "undefined")
                       \o ":" \o (IF Len(parts) >= 3 THEN parts[3] ELSE "00"))]

TimeOfValue(isPM, isAM, parts) == TimeOfParts(isPM, isAM, parts, ParseIntStr(parts[1]))

\* upper is value.toUpperCase(); the first AM or PM is cut out of the value
TimeOfMarked(value, upper) ==
    LET isPM == Includes(upper, "PM")
        isAM == Includes(upper, "AM")
        mark == IF isAM /\ (~isPM \/ IndexOf(upper, "AM") < IndexOf(upper, "PM"))
                THEN IndexOf(upper, "AM")
                ELSE IndexOf(upper, "PM")
    IN  TimeOfValue(isPM, isAM,
            Split(IF mark = 0 THEN Trim(value)
                  ELSE Trim(SubSeq(value, 1, mark - 1) \o SliceFrom(value, mark + 2)), ":"))

\* The time-only branch of validateDateLogic.  A PM hour other than 12 is
\* replaced by a number, and hours.padStart then throws.
TimeOnlyDate(value) == TimeOfMarked(value, ToUpperCase(value))

\* `${parts[0]}-${parts[1]}-${parts[2]}`, with the time after a 'T' if there is one
YearFirstDashText(parts) ==
    ParamText(parts, 0) \o "-" \o ParamText(parts, 1) \o "-" \o ParamText(parts, 2)
        \o (IF Len(parts) > 3 THEN "T" \o Join(SubSeq(parts, 4, Len(parts)), ":") ELSE "")

\* The date string branch of validateDateLogic for the year-first dash formats
YearFirstDashDate(value) == DateParse(YearFirstDashText(SplitDashSpace(value)))

\* the 0-based positions of year, month and day among the parts, by the
\* start of the format; <<>> when no branch assigns the date
PartOrder(format) ==
    IF StartsWith(format, "Y") THEN <<0, 1, 2>>
    ELSE IF StartsWith(format, "m") \/ StartsWith(format, "MM") THEN <<2, 0, 1>>
    ELSE IF StartsWith(format, "d") \/ StartsWith(format, "DD") THEN <<2, 1, 0>>
    ELSE <<>>

\* The Date validateDateLogic builds for a value that matched the format;
\* undefined says no branch assigned it, so date.getTime() throws.  The
\* branches split the value at '/', at '-' or white space, or at '.'; the
\* dotted formats are day first.
LogicDate(value, format) ==
    LET parsed(date) == [threw |-> FALSE, undefined |-> FALSE, date |-> date]
        timed(r)     == [threw |-> r.threw, undefined |-> FALSE, date |-> r.date]
        ymd(parts, order) ==
            IF order = <<>> THEN [threw |-> FALSE, undefined |-> TRUE, date |-> NaN]
            ELSE [threw |-> FALSE, undefined |-> FALSE,
                  date |-> DateOf(PartNum(parts, order[1]), MinusOne(PartNum(parts, order[2])),
                                  PartNum(parts, order[3]))]
    IN  IF Includes(format, "c") \/ Includes(format, "ISO8601") THEN parsed(DateParse(value))
        ELSE IF IsTimeFormat(format) THEN timed(TimeOnlyDate(value))
        ELSE IF ~Includes(format, "/") /\ Includes(format, "-") /\ StartsWith(format, "Y")
             THEN parsed(YearFirstDashDate(value))
        ELSE IF Includes(format, "/") THEN ymd(Split(value, "/"), PartOrder(format))
        ELSE IF Includes(format, "-") THEN ymd(SplitDashSpace(value), PartOrder(format))
        ELSE IF Includes(format, ".") THEN ymd(Split(value, "."), <<2, 1, 0>>)
        ELSE parsed(DateParse(value))

\* value.length === 8 ? `${value.slice(0,4)}-${value.slice(4,6)}-${value.slice(6,8)}` : value
NormalizedValue(value) ==
    IF Len(value) = 8
    THEN SubSeq(value, 1, 4) \o "-" \o SubSeq(value, 5, 6) \o "-" \o SubSeq(value, 7, 8)
    ELSE value

\* format.match(/^m{1,2}[-\/]Y{4}$/)
IsMonthYearPattern(format) == format \in {"m-YYYY", "mm-YYYY", "m/YYYY", "mm/YYYY"}

\* normalized === normalizedValue || normalized === value
SameDay(normalized, value) == normalized = NormalizedValue(value) \/ normalized = value

\* month >= 1 && month <= 12
IsMonth(month) == NumGe(month, Count(1)) /\ NumLe(month, Count(12))

\* the checks of validateDateLogic on the Date it built
CheckedDate(built, value, format) ==
    IF built.threw \/ built.undefined THEN Invalid
    ELSE IF built.date.nan THEN Invalid
    ELSE IF format \in {"Y-m-d", "YYYY-MM-DD"} THEN ValidIf(SameDay(IsoDay(built.date), value))
    ELSE IF IsMonthYearPattern(format)
         THEN ValidIf(IsMonth(ParseIntStr(SplitDashSpace(ReplaceAll(value, "/", "-"))[1])))
    ELSE Valid

validateDateLogic(value, format) == CheckedDate(LogicDate(value, format), value, format)

validateDateFormat(value, parameters) ==
    IF IsBlank(value) THEN Valid
    ELSE IF Len(parameters) = 0 THEN Invalid
    ELSE IF parameters[1] \notin DateFormats THEN Invalid
    ELSE IF ~MatchShape(ToStr(value), formatPatterns(parameters[1])) THEN Invalid
    ELSE IF value.t # "string" THEN Invalid
    ELSE validateDateLogic(value.s, parameters[1])

(***************************************************************************)
(* validateRule: dispatch on the rule name.  A throw that escapes the      *)
(* validator is caught here and becomes a failure with a generic message;  *)
(* a name with no case is valid.                                           *)
(***************************************************************************)
RuleDispatch(value, rule, element, form, attributeType) ==
    LET name       == rule.name
        parameters == rule.parameters
    IN  CASE name = "required"        -> validateRequired(value, element)
          [] name = "required_if"     -> validateRequiredIf(value, parameters, form, attributeType)
          [] name = "string"          -> validateString(value)
          [] name \in {"numeric", "double", "float"} -> validateNumeric(value)
          [] name = "integer"         -> validateInteger(value)
          [] name = "email"           -> validateEmail(value)
          [] name = "array"           -> validateArray(value)
          [] name = "file"            -> validateFile(value)
          [] name = "size"            -> validateSize(value, parameters, element)
          [] name = "mimes"           -> validateMimes(value, parameters)
          [] name = "min"             -> validateMin(value, parameters, element)
          [] name = "max"             -> validateMax(value, parameters, element)
          [] name = "between"         -> validateBetween(value, parameters, element)
          [] name = "date"            -> validateDate(value)
          [] name = "date_format"     -> validateDateFormat(value, parameters)
          [] name = "after"           -> validateAfter(value, parameters)
          [] name = "before"          -> validateBefore(value, parameters)
          [] name = "after_or_equal"  -> validateAfterOrEqual(value, parameters, form, attributeType)
          [] name = "before_or_equal" -> validateBeforeOrEqual(value, parameters, form, attributeType)
          [] name = "weekend"         -> validateWeekend(value)
          [] name = "time"            -> validateTime(value)
          [] name = "url"             -> validateUrl(value)
          [] name = "boolean"         -> validateBoolean(value)
          [] name = "confirmed"       -> validateConfirmed(value, element, form, attributeType)
          [] name = "alpha"           -> validateAlpha(value)
          [] name = "alpha_num"       -> validateAlphaNum(value)
          [] name = "same"            -> validateSame(value, parameters, form, attributeType)
          [] name = "different"       -> validateDifferent(value, parameters, form, attributeType)
          [] name = "in"              -> validateIn(value, parameters)
          [] name = "not_in"          -> validateNotIn(value, parameters)
          [] name = "regex"           -> validateRegex(value, parameters)
          [] name = "json"            -> validateJson(value)
          [] name = "ip"              -> validateIp(value)
          [] name = "ipv4"            -> validateIpv4(value)
          [] name = "ipv6"            -> validateIpv6(value)
          [] name = "uuid"            -> validateUuid(value)
          [] name = "digits"          -> validateDigits(value, parameters)
          [] name = "digits_between"  -> validateDigitsBetween(value, parameters)
          [] name = "currency"        -> validateCurrency(value, parameters)
          [] name = "min_length"      -> validateMinLength(value, parameters)
          [] name = "max_length"      -> validateMaxLength(value, parameters)
          [] name = "alpha_dash"      -> validateAlphaDash(value)
          [] name = "lowercase"       -> validateLowercase(value)
          [] name = "uppercase"       -> validateUppercase(value)
          [] name = "decimal"         -> validateDecimal(value, parameters)
          [] name = "gt"              -> validateGreaterThan(value, parameters, form, attributeType)
          [] name = "lt"              -> validateLessThan(value, parameters, form, attributeType)
          [] name = "lte"             -> validateLessThanOrEqual(value, parameters, form, attributeType)
          [] name = "dimensions"      -> validateDimensions(value, parameters)
          [] name = "nullable"        -> validateNullable(value)
          [] name = "sometimes"       -> Valid
          [] name = "required_with"   -> validateRequiredWith(value, parameters, form, attributeType)
          [] name = "required_unless" -> validateRequiredUnless(value, parameters, form, attributeType)
          [] name = "contains"        -> validateContains(value, parameters)
          [] name = "doesnt_contain"  -> validateDoesntContain(value, parameters)
          [] name = "accepted"        -> validateAccepted(value)
          [] name = "image"           -> validateImage(value)
          [] OTHER                    -> Valid

\* the rule names validateRule has a case for
KnownRules ==
    {"required", "required_if", "string", "numeric", "double", "float", "integer",
     "email", "array", "file", "size", "mimes", "min", "max", "between", "date",
     "date_format", "after", "before", "after_or_equal", "before_or_equal",
     "weekend", "time", "url", "boolean", "confirmed", "alpha", "alpha_num",
     "same", "different", "in", "not_in", "regex", "json", "ip", "ipv4", "ipv6",
     "uuid", "digits", "digits_between", "currency", "min_length", "max_length",
     "alpha_dash", "lowercase", "uppercase", "decimal", "gt", "lt", "lte",
     "dimensions", "nullable", "sometimes", "required_with", "required_unless",
     "contains", "doesnt_contain", "accepted", "image"}

\* validateRule with `default: return { valid: false }`
validateRuleUnknownFails(value, rule, element, form, attributeType) ==
    LET result == RuleDispatch(value, rule, element, form, attributeType)
    IN  IF rule.name \notin KnownRules THEN Invalid
        ELSE IF result.threw THEN InvalidMsg("Validation error for rule " \o rule.name)
        ELSE result

\* validateRule without its try / catch
validateRuleNoCatch(value, rule, element, form, attributeType) ==
    RuleDispatch(value, rule, element, form, attributeType)

\* catch (error) { return { valid: false, message: ... } }, lines 414..417
CaughtByRule(result, rule) ==
    IF result.threw THEN InvalidMsg("Validation error for rule " \o rule.name)
    ELSE result

validateRule(value, rule, element, form, attributeType) ==
    CaughtByRule(RuleDispatch(value, rule, element, form, attributeType), rule)

(***************************************************************************)
(* Messages.  The `messages` argument is null or an object; the object is  *)
(* held as the set of its [field, key, text] entries, key being "label" or *)
(* a rule name.  A missing entry and an empty text are both falsy, and     *)
(* read as "".                                                             *)
(***************************************************************************)
NullMessages == [isNull |-> TRUE, entries |-> {}]

Messages(entries) == [isNull |-> FALSE, entries |-> entries]

Entry(field, key, text) == [field |-> field, key |-> key, text |-> text]

\* messages[fieldName] || {}
FieldMessagesOf(messages, fieldName) == {e \in messages.entries : e.field = fieldName}

\* fieldMessages[key]
MessageFor(fieldMessages, key) ==
    IF \E e \in fieldMessages : e.key = key
    THEN (CHOOSE e \in fieldMessages : e.key = key).text
    ELSE ""

\* \w of a regular expression
WordChars == LowerLetters \cup UpperLetters \cup Digits \cup {"_"}

\* name.replace(/_/g, ' ').replace(/\b\w/g, l => l.toUpperCase())
DefaultLabel(name) ==
    LET spaced == ReplaceAll(name, "_", " ")
        RECURSIVE cap(_)
        cap(i) ==
            IF i > Len(spaced) THEN ""
            ELSE (IF Ch(spaced, i) \in WordChars /\ (i = 1 \/ Ch(spaced, i - 1) \notin WordChars)
                  THEN UpperCh(Ch(spaced, i))
                  ELSE Ch(spaced, i)) \o cap(i + 1)
    IN  cap(1)

\* fieldMessages.label || <the name, spaced and capitalised>
FieldLabel(fieldMessages, name) ==
    IF MessageFor(fieldMessages, "label") # "" THEN MessageFor(fieldMessages, "label")
    ELSE DefaultLabel(name)

\* parameters.forEach((param, index) => replace(/:param\[index\]/g, param))
RECURSIVE ReplaceIndexed(_, _, _)
ReplaceIndexed(message, parameters, index) ==
    IF index >= Len(parameters) THEN message
    ELSE ReplaceIndexed(
            ReplaceAll(message, ":param[" \o NatToString(index) \o "]", parameters[index + 1]),
            parameters, index + 1)

\* the dimensions case: every `key=val` parameter replaces :key by val
RECURSIVE ReplaceConstraints(_, _, _)
ReplaceConstraints(message, parameters, k) ==
    IF k > Len(parameters) THEN message
    ELSE LET parts == Split(parameters[k], "=")
             key   == parts[1]
             val   == IF Len(parts) >= 2 THEN parts[2] ELSE ""
         IN  ReplaceConstraints(
                IF key # "" /\ val # ""
                THEN ReplaceAll(message, ":" \o Trim(key), Trim(val))
                ELSE message,
                parameters, k + 1)

\* The replacements run in the order of the source, each on the result of
\* the one before.  (Replacement texts hold no `$` in this model.)
\* :label, :attribute, :field and :value
ReplaceBasic(message, fieldName, fieldLabel) ==
    ReplaceAll(ReplaceAll(ReplaceAll(ReplaceAll(message,
        ":label", fieldLabel), ":attribute", fieldLabel),
        ":field", fieldName), ":value", "the input")

\* :min and :max
ReplaceNamed(indexed, parameters) ==
    ReplaceAll(ReplaceAll(indexed, ":min", parameters[1]),
        ":max", IF Len(parameters) > 1 THEN parameters[2] ELSE parameters[1])

\* switch (name): the replacements of single rules
ReplaceByRule(named, name, parameters) ==
    CASE name = "between" ->
            ReplaceAll(ReplaceAll(named, ":min_value", parameters[1]),
                       ":max_value", ParamText(parameters, 1))
      [] name \in {"mimes", "in", "not_in"} ->
            ReplaceAll(named, ":values", Join(parameters, ", "))
      [] name = "dimensions" -> ReplaceConstraints(named, parameters, 1)
      [] OTHER -> named

\* if (parameters.length > 0) { ... }
ReplaceParameters(basic, rule) ==
    IF Len(rule.parameters) = 0 THEN basic
    ELSE ReplaceByRule(ReplaceNamed(ReplaceIndexed(basic, rule.parameters, 0), rule.parameters),
                       rule.name, rule.parameters)

replacePlaceholders(message, fieldName, rule, fieldLabel) ==
    ReplaceParameters(ReplaceBasic(message, fieldName, fieldLabel), rule)

\* defaultMessages[name] || `The ${fieldLabel} field is invalid.`
defaultMessages(name, parameters, fieldLabel) ==
    LET The == "The " \o fieldLabel
        p0  == ParamText(parameters, 0)
        p1  == ParamText(parameters, 1)
        all == Join(parameters, ", ")
    IN  CASE name = "required"    -> The \o " field is required."
          [] name = "required_if" -> The \o " field is required when specified conditions are met."
          [] name = "string"      -> The \o " field must be a string."
          [] name = "numeric"     -> The \o " field must be a number."
          [] name = "integer"     -> The \o " field must be an integer."
          [] name = "email"       -> The \o " field must be a valid email address."
          [] name = "array"       -> The \o " field must be an array."
          [] name = "file"        -> The \o " field must be a file."
          [] name = "size"        -> The \o " file size must not exceed "
                                       \o (IF Len(parameters) > 0 THEN p0 ELSE "8") \o "MB."
          [] name = "mimes"       -> The \o " file must be a file of type: " \o all \o "."
          [] name = "min"         -> The \o " field must be at least " \o p0 \o "."
          [] name = "max"         -> The \o " field must not be greater than " \o p0 \o "."
          [] name = "between"     -> The \o " field must be between " \o p0 \o " and " \o p1 \o "."
          [] name = "date"        -> The \o " field must be a valid date."
          [] name = "date_format" -> The \o " field must match the format " \o p0 \o "."
          [] name = "after"       -> The \o " field must be a date after " \o p0 \o "."
          [] name = "before"      -> The \o " field must be a date before " \o p0 \o "."
          [] name = "after_or_equal"  -> The \o " field must be a date after or equal to " \o p0 \o "."
          [] name = "before_or_equal" -> The \o " field must be a date before or equal to " \o p0 \o "."
          [] name = "weekend"     -> The \o " field must be a weekend date."
          [] name = "time"        -> The \o " field must be a valid time."
          [] name = "url"         -> The \o " field must be a valid URL."
          [] name = "boolean"     -> The \o " field must be true or false."
          [] name = "confirmed"   -> The \o " confirmation does not match."
          [] name = "alpha"       -> The \o " field must contain only letters."
          [] name = "alpha_num"   -> The \o " field must contain only letters and numbers."
          [] name = "same"        -> The \o " field must match " \o p0 \o "."
          [] name = "different"   -> The \o " field must be different from " \o p0 \o "."
          [] name \in {"in", "not_in"} -> "The selected " \o fieldLabel \o " is invalid."
          [] name = "regex"       -> The \o " field format is invalid."
          [] name = "json"        -> The \o " field must be a valid JSON string."
          [] name = "ip"          -> The \o " field must be a valid IP address."
          [] name = "ipv4"        -> The \o " field must be a valid IPv4 address."
          [] name = "ipv6"        -> The \o " field must be a valid IPv6 address."
          [] name = "uuid"        -> The \o " field must be a valid UUID."
          [] name = "digits"      -> The \o " field must be " \o p0 \o " digits."
          [] name = "digits_between" -> The \o " field must be between " \o p0 \o " and " \o p1 \o " digits."
          [] name = "min_length"  -> The \o " must be at least " \o p0 \o " characters."
          [] name = "max_length"  -> The \o " may not be greater than " \o p0 \o " characters."
          [] name = "alpha_dash"  -> The \o " may only contain letters, numbers, dashes and underscores."
          [] name = "lowercase"   -> The \o " must be lowercase."
          [] name = "uppercase"   -> The \o " must be uppercase."
          [] name = "decimal"     -> The \o " must have "
                                       \o (IF Len(parameters) > 1 THEN p0 \o " to " \o p1 ELSE p0)
                                       \o " decimal places."
          [] name = "gt"          -> The \o " must be greater than " \o p0 \o "."
          [] name = "lt"          -> The \o " must be less than " \o p0 \o "."
          [] name = "lte"         -> The \o " must be less than or equal to " \o p0 \o "."
          [] name = "dimensions"  -> The \o " has invalid image dimensions."
          [] name = "required_with"   -> The \o " field is required when " \o all \o " is present."
          [] name = "required_unless" ->
                The \o " field is required unless " \o p0 \o " is in "
                    \o Join(SubSeq(parameters, 2, Len(parameters)), ", ") \o "."
          [] name = "contains"    -> The \o " field must contain: " \o all \o "."
          [] name = "doesnt_contain" -> The \o " field must not contain: " \o all \o "."
          [] name = "accepted"    -> The \o " must be accepted."
          [] name = "image"       -> The \o " must be an image."
          [] OTHER                -> The \o " field is invalid."

\* getErrorMessage with the validator's message taken before the caller's
getErrorMessageValidatorFirst(fieldName, rule, fieldMessages, fieldLabel, customMessage) ==
    replacePlaceholders(
        IF customMessage # "" THEN customMessage
        ELSE IF MessageFor(fieldMessages, rule.name) # "" THEN MessageFor(fieldMessages, rule.name)
        ELSE defaultMessages(rule.name, rule.parameters, fieldLabel),
        fieldName, rule, fieldLabel)

\* The message recorded for a failed rule: the page's override for the rule,
\* else the message the validator returned, else the rule's default.
getErrorMessage(fieldName, rule, fieldMessages, fieldLabel, customMessage) ==
    replacePlaceholders(
        IF MessageFor(fieldMessages, rule.name) # "" THEN MessageFor(fieldMessages, rule.name)
        ELSE IF customMessage # "" THEN customMessage
        ELSE defaultMessages(rule.name, rule.parameters, fieldLabel),
        fieldName, rule, fieldLabel)

(***************************************************************************)
(* The ErrorStore (validationErrors): a JavaScript object, held as the     *)
(* sequence of its [key, messages] properties in insertion order.          *)
(***************************************************************************)
ErrorKeys(store) == {store[i].key : i \in 1..Len(store)}

\* validationErrors[key], <<>> when there is no such property
ErrorsOf(store, key) ==
    IF key \in ErrorKeys(store)
    THEN store[CHOOSE i \in 1..Len(store) : store[i].key = key].messages
    ELSE <<>>

\* if (!validationErrors[key]) validationErrors[key] = []; validationErrors[key].push(message)
PushError(store, key, message) ==
    IF key \in ErrorKeys(store)
    THEN [i \in 1..Len(store) |->
            IF store[i].key = key
            THEN [store[i] EXCEPT !.messages = Append(@, message)]
            ELSE store[i]]
    ELSE Append(store, [key |-> key, messages |-> <<message>>])

\* validationErrors[key] = messages
SetErrors(store, key, messages) ==
    IF key \in ErrorKeys(store)
    THEN [i \in 1..Len(store) |->
            IF store[i].key = key THEN [store[i] EXCEPT !.messages = messages] ELSE store[i]]
    ELSE Append(store, [key |-> key, messages |-> messages])

(***************************************************************************)
(* validationJs.  A run threads a record through the fields: the store,    *)
(* the form (whose elements gain the error class), isValid, and whether an *)
(* exception is on its way to the catch of validationJs, with its message. *)
(***************************************************************************)
RunState(errors, form, isValid, threw, error, debug, console) ==
    [errors |-> errors, form |-> form, isValid |-> isValid, threw |-> threw, error |-> error,
     debug |-> debug, console |-> console]

\* a line of the console: console.log, console.warn or console.error with
\* the text of its arguments
Line(level, text) == [level |-> level, text |-> text]

\* if (validationDebug) { console.log(...) } with the outcome touched as well
LogMarksInvalid(st, level, text) ==
    IF st.debug THEN [st EXCEPT !.console = Append(@, Line(level, text)), !.isValid = FALSE]
    ELSE st

\* if (validationDebug) { console.log(...) } and if (validationDebug) { console.warn(...) }
Log(st, level, text) ==
    IF st.debug THEN [st EXCEPT !.console = Append(@, Line(level, text))] ELSE st

Throw(st, error) == [st EXCEPT !.threw = TRUE, !.error = error]

\* the formElement argument: an id string, or an element (present) or null
FormElement(isString, id, present) == [isString |-> isString, id |-> id, present |-> present]

\* the id of the form in the document
FormId == "form"

\* formElement.replace('#', ''): the first '#' only
StripHash(id) ==
    LET at == IndexOf(id, "#")
    IN  IF at = 0 THEN id ELSE SubSeq(id, 1, at - 1) \o SliceFrom(id, at + 1)

\* lines 19..24: whether `form` is an element after the lookup
ResolveForm(formElement) ==
    IF formElement.isString THEN StripHash(formElement.id) = FormId
    ELSE formElement.present

\* the message of the SyntaxError of querySelector / querySelectorAll
SelectorErrorText(method, attributeType, val) ==
    "Failed to execute '" \o method \o "' on 'Element': '[" \o attributeType
        \o "=\"" \o val \o "\"]' is not a valid selector."

\* the message of the TypeError of messages[fieldName] with messages null
NullMessagesErrorText(fieldName) ==
    "Cannot read properties of null (reading '" \o fieldName \o "')"

\* The position in ruleArray the loop `for (let rule of ruleArray)` goes on
\* with after rule k of n: the `break` of a failure leaves the loop.
ContinueAfterFailure(k, n, valid) == k + 1

BreakAfterFailure(k, n, valid) == IF valid THEN k + 1 ELSE n + 1

\* RecordFailure without `isValid = false`
RecordFailureStaysValid(st, i, key, errorMessage) ==
    Log([st EXCEPT !.errors  = PushError(@, key, errorMessage),
                   !.form[i].cls = TRUE],
        "log", "Validation failed for " \o key \o ": " \o errorMessage)

\* the body of `if (!result.valid) { ... }` up to the break, lines 70..80 and 112..122
RecordFailure(st, i, key, errorMessage) ==
    Log([st EXCEPT !.isValid = FALSE,
                   !.errors  = PushError(@, key, errorMessage),
                   !.form[i].cls = TRUE],
        "log", "Validation failed for " \o key \o ": " \o errorMessage)

\* The loop over the rules of the element at position i from rule k on,
\* lines 67..87 and 109..129, and what it does with the result of rule k.
\* key is the property of the store, messageName the name given to
\* getErrorMessage, label the label with its " #n" for an array field.
RECURSIVE RunRules(_, _, _, _, _, _, _, _, _)
RECURSIVE AfterRule(_, _, _, _, _, _, _, _, _, _)
AfterRule(st, result, k, i, key, messageName, fieldMessages, label, ruleArray, attributeType) ==
    IF result.threw THEN Throw(st, "Error validating rule")
    ELSE RunRules(IF result.valid THEN st
                  ELSE RecordFailure(st, i, key,
                           getErrorMessage(messageName, ruleArray[k], fieldMessages, label,
                                           result.message)),
                  BreakAfterFailure(k, Len(ruleArray), result.valid),
                  i, key, messageName, fieldMessages, label, ruleArray, attributeType)

RunRules(st, k, i, key, messageName, fieldMessages, label, ruleArray, attributeType) ==
    IF k > Len(ruleArray) \/ st.threw THEN st
    ELSE AfterRule(st,
            validateRule(getFieldValue(st.form, i), ruleArray[k], st.form[i], st.form,
                         attributeType),
            k, i, key, messageName, fieldMessages, label, ruleArray, attributeType)

\* An element a field's rules run on: its position in the form, the
\* property of the store, the name given to getErrorMessage, and what
\* follows the label.
Target(i, key, messageName, suffix) ==
    [i |-> i, key |-> key, messageName |-> messageName, suffix |-> suffix]

\* One element of a field: lines 57..87 (array fields) and 100..129.
ValidateElement(st, target, fieldName, fieldRules, messages, attributeType) ==
    IF messages.isNull THEN Throw(st, NullMessagesErrorText(fieldName))
    ELSE RunRules(Log(st, "log",
                      (IF target.suffix = "" THEN "Validating field: "
                       ELSE "Validating array field: ") \o target.key \o ", value:"),
                  1, target.i, target.key, target.messageName,
                  FieldMessagesOf(messages, fieldName),
                  FieldLabel(FieldMessagesOf(messages, fieldName), target.messageName)
                      \o target.suffix,
                  parseRules(fieldRules), attributeType)

\* the elements in turn, from the n-th on: fieldElements.forEach(...)
RECURSIVE ValidateElements(_, _, _, _, _, _, _)
ValidateElements(st, targets, n, fieldName, fieldRules, messages, attributeType) ==
    IF n > Len(targets) \/ st.threw THEN st
    ELSE ValidateElements(
            ValidateElement(st, targets[n], fieldName, fieldRules, messages, attributeType),
            targets, n + 1, fieldName, fieldRules, messages, attributeType)

\* the array branch with every element under the key of the first
ArrayTargetsOneKey(form, fieldName, attributeType) ==
    LET fieldElements == QuerySelectorAll(form, attributeType, fieldName)
        baseFieldName == SubSeq(fieldName, 1, Len(fieldName) - 2)
    IN  [n \in 1..Len(fieldElements) |->
            Target(fieldElements[n], baseFieldName \o "_0", baseFieldName,
                   " #" \o NatToString(n))]

\* the array branch, lines 44..64: every element querySelectorAll finds,
\* under the key `${baseFieldName}_${index}` and the label `${fieldLabel} #${index + 1}`;
\* no matching element, and the field is skipped
ArrayTargets(form, fieldName, attributeType) ==
    LET fieldElements == QuerySelectorAll(form, attributeType, fieldName)
        baseFieldName == SubSeq(fieldName, 1, Len(fieldName) - 2)
    IN  [n \in 1..Len(fieldElements) |->
            Target(fieldElements[n], baseFieldName \o "_" \o NatToString(n - 1),
                   baseFieldName, " #" \o NatToString(n))]

\* the regular branch with an absent field validated on the first element
\* of the form in its place
RegularTargetsNoSkip(form, fieldName, attributeType) ==
    LET fieldElement == QuerySelector(form, attributeType, fieldName)
    IN  IF fieldElement = 0 THEN <<Target(1, fieldName, fieldName, "")>>
        ELSE <<Target(fieldElement, fieldName, fieldName, "")>>

\* the regular branch, lines 89..106: the element querySelector finds under
\* the field's own name; no matching element, and the field is skipped
RegularTargets(form, fieldName, attributeType) ==
    LET fieldElement == QuerySelector(form, attributeType, fieldName)
    IN  IF fieldElement = 0 THEN <<>>
        ELSE <<Target(fieldElement, fieldName, fieldName, "")>>

\* the elements found for a field: none, and the field is skipped with a
\* warning when debugging, lines 48..53 and 93..98
ValidateTargets(st, targets, fieldName, fieldRules, messages, attributeType) ==
    IF Len(targets) = 0
    THEN Log(st, "warn",
             (IF EndsWith(fieldName, "[]") THEN "Array field elements not found: "
              ELSE "Field element not found: ") \o fieldName)
    ELSE ValidateElements(st, targets, 1, fieldName, fieldRules, messages, attributeType)

\* the body of `for (let fieldName in rules)`, lines 40..130: a field name
\* that makes no valid selector throws in either branch
ValidateField(st, fieldName, fieldRules, messages, attributeType) ==
    IF SelectorThrows(fieldName)
    THEN Throw(st, SelectorErrorText(IF EndsWith(fieldName, "[]") THEN "querySelectorAll"
                                     ELSE "querySelector", attributeType, fieldName))
    ELSE ValidateTargets(st,
            IF EndsWith(fieldName, "[]") THEN ArrayTargets(st.form, fieldName, attributeType)
            ELSE RegularTargets(st.form, fieldName, attributeType),
            fieldName, fieldRules, messages, attributeType)

\* for (let fieldName in rules) from the k-th property on; rules is the
\* sequence of the [field, rules] properties of the object, in order
RECURSIVE ValidateFields(_, _, _, _, _)
ValidateFields(st, rules, k, messages, attributeType) ==
    IF k > Len(rules) \/ st.threw THEN st
    ELSE ValidateFields(
            ValidateField(st, rules[k].field, rules[k].rules, messages, attributeType),
            rules, k + 1, messages, attributeType)

\* what a call of validationJs leaves: the store, the form, the returned
\* boolean, and whether an exception reached the caller instead
RunResult(errors, form, value, escaped, console) ==
    [errors |-> errors, form |-> form, value |-> value, escaped |-> escaped,
     console |-> console]

\* validationJs without its try / catch
NoCatch(st) ==
    IF st.threw THEN RunResult(st.errors, st.form, FALSE, TRUE, st.console)
    ELSE RunResult(st.errors, st.form, st.isValid, FALSE, st.console)

\* try { ...; return isValid } catch (error) { ...; return false }, lines 17
\* and 138..144: console.error is not under the debug flag
CatchGlobal(st) ==
    IF st.threw
    THEN RunResult(SetErrors(st.errors, "_global", <<"Validation system error: " \o st.error>>),
                   st.form, FALSE, FALSE,
                   Append(st.console, Line("error", "Validation error: " \o st.error)))
    ELSE RunResult(st.errors, st.form, st.isValid, FALSE, st.console)

\* validationJs that keeps the store of the run before
KeepErrors(previous) == previous

\* validationErrors = {}, line 15
ResetErrors(previous) == <<>>

\* the debug info at the start of a run, lines 31..35
Started(st) ==
    Log(Log(Log(st, "log", "Validation started for form:"), "log", "Rules:"),
        "log", "Messages:")

\* the debug info at the end of a run that did not throw, lines 133..136
Completed(st) ==
    IF st.threw THEN st
    ELSE Log(Log(st, "log", "Validation completed. Is valid: "
                                \o (IF st.isValid THEN "true" ELSE "false")),
             "log", "Errors:")

\* the run from the state it starts in
RunFrom(start, formElement, rules, messages, attributeType) ==
    IF ~ResolveForm(formElement) THEN Throw(start, "Form element not found")
    ELSE Completed(ValidateFields(Started(start), rules, 1, messages, attributeType))

\* validationJs(formElement, rules, messages, attributeType) called with
\* validationDebug holding `debug`, the store holding `previous` and the
\* document holding `form`
validationJs(debug, previous, formElement, form, rules, messages, attributeType) ==
    CatchGlobal(RunFrom(RunState(ResetErrors(previous), form, TRUE, FALSE, "", debug, <<>>),
                        formElement, rules, messages, attributeType))

(***************************************************************************)
(* validationJsError and the display of the errors.                        *)
(***************************************************************************)
\* Flatten with the last message of every property instead of the first
FlattenLast(store) ==
    LET kept == SelectSeq(store, LAMBDA e : Len(e.messages) > 0)
    IN  [i \in 1..Len(kept) |->
            [key |-> kept[i].key, message |-> kept[i].messages[Len(kept[i].messages)]]]

\* errorMessages: the first message of every property that has one, as the
\* sequence of the [key, message] properties of the object
Flatten(store) ==
    LET kept == SelectSeq(store, LAMBDA e : Len(e.messages) > 0)
    IN  [i \in 1..Len(kept) |-> [key |-> kept[i].key, message |-> kept[i].messages[1]]]

\* Object.values(errorMessages).map(error => open + error + close).join('')
RECURSIVE ListItems(_, _, _, _)
ListItems(errorMessages, k, open, close) ==
    IF k > Len(errorMessages) THEN ""
    ELSE open \o errorMessages[k].message \o close
            \o ListItems(errorMessages, k + 1, open, close)

\* what the page shows: the toastr notifications of the last display and
\* the children of #validation_messages
Display(toasts, children) == [toasts |-> toasts, children |-> children]

Toast(text, title) == [text |-> text, title |-> title]

\* showToastrErrors(errorMessages, mode) on a page where toastr is or is not
\* loaded and #validation_messages does or does not exist
showToastrErrors(errorMessages, mode, display, toastr, messagesDiv) ==
    IF toastr
    THEN IF mode = "single"
         THEN IF Len(errorMessages) > 0
              THEN Display(<<Toast("<ul style=\"margin: 0; padding-left: 20px; line-height: 1.5;\">"
                                     \o ListItems(errorMessages, 1,
                                            "<li style=\"margin-bottom: 5px;\">", "</li>")
                                     \o "</ul>",
                                   "Validation Errors")>>,
                           display.children)
              ELSE Display(<<>>, display.children)
         ELSE Display([k \in 1..Len(errorMessages) |-> Toast(errorMessages[k].message, "Error")],
                      display.children)
    ELSE IF ~messagesDiv THEN display
    ELSE IF mode = "single"
         THEN IF Len(errorMessages) > 0
              THEN Display(display.toasts,
                           <<"<strong>Validation Errors:</strong><ul>"
                               \o ListItems(errorMessages, 1, "<li>", "</li>") \o "</ul>">>)
              ELSE Display(display.toasts, <<>>)
         ELSE Display(display.toasts,
                      [k \in 1..Len(errorMessages) |->
                          "<strong>Error:</strong> " \o errorMessages[k].message])

\* validationJsError(type, mode): the returned object (undefined after a
\* toastr display) and the display it leaves
validationJsError(store, type, mode, display, toastr, messagesDiv) ==
    IF type = "raw"
    THEN [undefined |-> FALSE, errorMessages |-> Flatten(store), display |-> display]
    ELSE IF type = "toastr"
    THEN [undefined |-> TRUE, errorMessages |-> <<>>,
          display |-> showToastrErrors(Flatten(store), mode, display, toastr, messagesDiv)]
    ELSE [undefined |-> FALSE, errorMessages |-> Flatten(store), display |-> display]

(***************************************************************************)
(* The pages the library runs on.  A page is a form, the rules and the     *)
(* messages its script passes to validationJs, the attribute types it      *)
(* uses, what the user may type or pick (edits), and whether toastr and    *)
(* #validation_messages exist.                                             *)
(***************************************************************************)
Text(name, value) == Elem(name, name, "text", Str(value), FALSE, <<>>, <<>>)

Checkbox(name, checked) == Elem(name, name, "checkbox", Str("on"), checked, <<>>, <<>>)

FileInput(name, files) == Elem(name, name, "file", Str(""), FALSE, files, <<>>)

SelectMultiple(name, selected) ==
    Elem(name, name, "select-multiple", Str(""), FALSE, <<>>, selected)

\* an element that is no form control: it has no value and no type
Block(name) == Elem(name, name, "undefined", Undef, FALSE, <<>>, <<>>)

FieldRules(field, rules) == [field |-> field, rules |-> Str(rules)]

\* the user's edit of the element at position i
Edit(i, value) == [i |-> i, value |-> value]

Page(form, rules, messages, attrs, edits, toastr, messagesDiv) ==
    [form |-> form, rules |-> rules, messages |-> messages, attrs |-> attrs,
     edits |-> edits, toastr |-> toastr, messagesDiv |-> messagesDiv]

NoMessages == Messages({})

\* a sign-up form: a chain of three rules, and an age between 18 and 65
SignupPage ==
    Page(<<Text("email", ""), Text("age", "18")>>,
         <<FieldRules("email", "required|email|min_length:5"),
           FieldRules("age", "integer|between:18,65")>>,
         {NoMessages,
          Messages({Entry("email", "label", "E-mail"),
                    Entry("email", "email", ":label is no address")})},
         {"name"},
         {Edit(1, Str("")), Edit(1, Str("ab")), Edit(1, Str("a@b.co"))},
         FALSE, FALSE)

\* an array field next to a plain field named like one of its indexed keys
SkillsPage ==
    Page(<<Elem("skills[]", "s0", "text", Str(""), FALSE, <<>>, <<>>),
           Elem("skills[]", "s1", "text", Str("js"), FALSE, <<>>, <<>>),
           Text("skills_0", "")>>,
         <<FieldRules("skills[]", "required|min_length:2"),
           FieldRules("skills_0", "required")>>,
         {NoMessages},
         {"name", "id"},
         {Edit(3, Str("")), Edit(3, Str("x"))},
         FALSE, FALSE)

\* a field name that makes no valid selector, and messages passed as null
BrokenPage ==
    Page(<<Text("a", ""), Text("b", "")>>,
         <<FieldRules("a", "required"), FieldRules("b\"c", "required"),
           FieldRules("b", "required")>>,
         {NoMessages, NullMessages},
         {"name"},
         {Edit(1, Str("")), Edit(1, Str("x"))},
         FALSE, FALSE)

\* rules whose validators throw: mimes on a text value, required_with and
\* gt with a parameter that makes no valid selector
ThrowingPage ==
    Page(<<Text("doc", "abc"), Text("other", ""), Text("z", "5")>>,
         <<FieldRules("doc", "mimes:jpg"), FieldRules("other", "required_with:doc"),
           FieldRules("z", "required|gt:q\"r")>>,
         {NoMessages, Messages({Entry("doc", "mimes", "Upload a :param[0] file")})},
         {"name"},
         {Edit(1, Str("")), Edit(1, Str("abc"))},
         FALSE, FALSE)

\* rule names validateRule has no case for, and an empty rule token
UnknownRulesPage ==
    Page(<<Text("x", "abc")>>,
         <<FieldRules("x", "bogus|required||unknown:1,2|email")>>,
         {NoMessages},
         {"name"},
         {Edit(1, Str("")), Edit(1, Str("abc")), Edit(1, Str("a@b.co"))},
         TRUE, FALSE)

\* rules for fields the form does not have
GhostPage ==
    Page(<<Text("present", "")>>,
         <<FieldRules("ghost", "required"), FieldRules("ghosts[]", "required|min:2"),
           FieldRules("present", "required")>>,
         {NoMessages},
         {"name"},
         {Edit(1, Str("")), Edit(1, Str("ok"))},
         FALSE, TRUE)

\* empty values under rules that compare with another field or ask for a file
PasswordPage ==
    Page(<<Text("pw", ""), Text("pw_confirmation", "secret"), Text("other", "x")>>,
         <<FieldRules("pw", "confirmed"), FieldRules("other", "different:pw")>>,
         {NoMessages},
         {"name"},
         {Edit(1, Str("")), Edit(1, Str("secret"))},
         FALSE, FALSE)

\* required on every kind of element
RequiredPage ==
    Page(<<Text("zero", "0"), Text("blank", "  "), Checkbox("agree", FALSE),
           FileInput("photo", <<>>), SelectMultiple("tags", <<>>), Block("note")>>,
         <<FieldRules("zero", "required"), FieldRules("blank", "required"),
           FieldRules("agree", "required"), FieldRules("photo", "required"),
           FieldRules("tags", "required"), FieldRules("note", "required")>>,
         {NoMessages},
         {"name"},
         {Edit(1, Str("")), Edit(1, Str("0")), Edit(3, Bool(TRUE))},
         FALSE, FALSE)

\* min and max on values of every shape: lists in a string, numeric
\* strings, words, files and picked options
ShapePage ==
    Page(<<Text("tags", "a,b,c"), Text("few", "a,b,c"), Text("qty", "10"),
           Text("word", "abc"),
           FileInput("docs", <<File("a.txt", 10, "text/plain", 0, 0),
                               File("b.txt", 20, "text/plain", 0, 0)>>),
           SelectMultiple("opts", <<"x", "y", "z">>)>>,
         <<FieldRules("tags", "min:2"), FieldRules("few", "max:2"),
           FieldRules("qty", "max:5"), FieldRules("word", "min:3"),
           FieldRules("docs", "min:2"), FieldRules("opts", "max:2")>>,
         {NoMessages},
         {"name"},
         {Edit(3, Str("5"))},
         FALSE, FALSE)

\* confirmed and same with the compare field absent and with it present but
\* different, with and without the caller's own message for the rule
ConfirmPage ==
    Page(<<Text("pw", "secret"), Text("pw_confirmation", "other"), Text("pin", "1234"),
           Text("again", "x"), Text("copy", "x")>>,
         <<FieldRules("pw", "confirmed"), FieldRules("pin", "confirmed"),
           FieldRules("again", "same:pw"), FieldRules("copy", "same:nofield")>>,
         {NoMessages,
          Messages({Entry("pin", "confirmed", "Type the :label twice"),
                    Entry("again", "same", "Repeat :param[0]"),
                    Entry("copy", "label", "Copy")})},
         {"name"},
         {Edit(2, Str("secret"))},
         FALSE, FALSE)

\* fields required with another field, and required unless another field
\* holds a listed value
DependPage ==
    Page(<<Text("first_name", "Ann"), Text("last_name", "Lee"), Text("contact", "sms"),
           Text("phone", "555")>>,
         <<FieldRules("last_name", "required_with:first_name,nickname"),
           FieldRules("phone", "required_unless:contact,email,post")>>,
         {NoMessages},
         {"name"},
         {Edit(1, Str("")), Edit(3, Str("email"))},
         FALSE, FALSE)

\* failing rules whose messages come from the caller, from the validator,
\* from the default templates and from the fallback, with placeholders
MessagesPage ==
    Page(<<Text("age", "7"), Text("color", "red"), Text("kind", "x"), Text("doc", "abc"),
           Text("price", "abc"), Text("nick", ""),
           FileInput("pic", <<File("a.png", 10, "image/png", 50, 50)>>),
           Text("copy", "x")>>,
         <<FieldRules("age", "between:18,65"), FieldRules("color", "in:green,blue"),
           FieldRules("kind", "not_in:x,y"), FieldRules("doc", "mimes:jpg,png"),
           FieldRules("price", "currency"), FieldRules("nick", "required"),
           FieldRules("pic", "dimensions:min_width=100"),
           FieldRules("copy", "same:nofield")>>,
         {NoMessages,
          Messages({Entry("age", "between",
                          "Age must be between :min_value and :max_value years"),
                    Entry("color", "in", "Pick one of :values, not :value"),
                    Entry("kind", "not_in", ":label may not be :values"),
                    Entry("doc", "mimes", "Upload :param[0] or :param[1], not :field"),
                    Entry("pic", "dimensions", "At least :min_width px wide"),
                    Entry("price", "label", "Price")})},
         {"name"},
         {Edit(2, Str("green"))},
         FALSE, FALSE)

\* an array field of three elements, the second one empty
ArrayPage ==
    Page(<<Elem("skills[]", "s0", "text", Str("js"), FALSE, <<>>, <<>>),
           Elem("skills[]", "s1", "text", Str(""), FALSE, <<>>, <<>>),
           Elem("skills[]", "s2", "text", Str("go"), FALSE, <<>>, <<>>)>>,
         <<FieldRules("skills[]", "required|min:2")>>,
         {NoMessages, Messages({Entry("skills[]", "label", "Skill")})},
         {"name"},
         {Edit(2, Str("c"))},
         FALSE, FALSE)

\* uploads: an image that meets its dimension constraints, and files above
\* and below the size caps of their rules
UploadPage ==
    Page(<<FileInput("photo", <<File("p.png", 1000, "image/png", 200, 100)>>),
           FileInput("scan", <<File("s.pdf", 5 * BytesPerMB, "application/pdf", 0, 0)>>),
           FileInput("clip", <<File("c.mp4", 3 * BytesPerMB, "video/mp4", 0, 0)>>),
           FileInput("note", <<File("n.txt", 5 * BytesPerMB, "text/plain", 0, 0)>>)>>,
         <<FieldRules("photo", "dimensions:min_width=100,max_height=150"),
           FieldRules("scan", "size"), FieldRules("clip", "size:2"),
           FieldRules("note", "size:8")>>,
         {NoMessages},
         {"name"},
         {Edit(1, FileList(<<File("q.png", 1000, "image/png", 50, 200)>>, 1))},
         FALSE, FALSE)

\* dates under date_format: padded and unpadded year-first dates, a February
\* 31st, a 13th month, and month/year values
DatesPage ==
    Page(<<Text("iso", "2024-01-15"), Text("loose", "2024-1-15"),
           Text("feb", "31/02/2024"), Text("us", "13/01/2024"),
           Text("card", "01/2024"), Text("due", "1-2024")>>,
         <<FieldRules("iso", "date_format:Y-m-d"), FieldRules("loose", "date_format:Y-m-d"),
           FieldRules("feb", "date_format:d/m/Y"), FieldRules("us", "date_format:m/d/Y"),
           FieldRules("card", "date_format:MM/YYYY"), FieldRules("due", "date_format:m-Y")>>,
         {NoMessages},
         {"name"},
         {Edit(1, Str("2024-13-01")), Edit(5, Str("13/2024"))},
         FALSE, FALSE)

\* rule-specs that are no strings (an array of names, undefined) on empty
\* fields, next to specs with an empty parameter segment and with colons in
\* the parameter
ParsePage ==
    Page(<<Text("nick", ""), Text("alias", ""), Text("pick", "a"),
           Text("when", "2024-06-01T10:00")>>,
         <<[field |-> "nick", rules |-> Arr(<<"required">>)],
           [field |-> "alias", rules |-> Undef],
           FieldRules("pick", "in:a,,b"),
           FieldRules("when", "required|after:2024-01-01T10:00")>>,
         {NoMessages},
         {"name"},
         {Edit(3, Str("c"))},
         FALSE, FALSE)

\* gt, lt and lte against another field and against a literal, where the
\* comparison by number, by length and by alphabet disagree
ComparePage ==
    Page(<<Text("floor", "9.5"), Text("price", "10"), Text("word", "pear"),
           Text("qty", "7"), Text("code", "12")>>,
         <<FieldRules("floor", "lte:price"), FieldRules("price", "gt:floor"),
           FieldRules("word", "gt:zoo"), FieldRules("qty", "lt:10"),
           FieldRules("code", "lte:abc")>>,
         {NoMessages},
         {"name"},
         {Edit(2, Str("9.25"))},
         FALSE, FALSE)

Pages ==
    {SignupPage, SkillsPage, BrokenPage, ThrowingPage, UnknownRulesPage, GhostPage,
     PasswordPage, RequiredPage, ShapePage, ConfirmPage, DependPage, MessagesPage,
     ArrayPage, UploadPage, DatesPage, ParsePage, ComparePage}

\* the form arguments a script passes: the element, its id, an id no
\* element has, null
FormElements ==
    {FormElement(FALSE, "", TRUE), FormElement(TRUE, "#form", FALSE),
     FormElement(TRUE, "#missing", FALSE), FormElement(FALSE, "", FALSE)}

\* the element after the user's edit: a box is ticked, options are picked,
\* files are chosen, text is typed
ApplyEdit(element, value) ==
    CASE element.type = "checkbox"        -> [element EXCEPT !.checked = value.b]
      [] element.type = "select-multiple" -> [element EXCEPT !.selected = value.a]
      [] element.type = "file"            -> [element EXCEPT !.files = value.f]
      [] OTHER                            -> [element EXCEPT !.value = value]

(***************************************************************************)
(* The state machine: a page, the user editing its form, and the script    *)
(* calling the three entry points of the library.                          *)
(***************************************************************************)
VARIABLES
    page,              \* the page: rules, messages and edits on offer
    form,              \* the elements of the form, in document order
    validationErrors,  \* the ErrorStore
    validationDebug,   \* the debug flag
    display,           \* the notifications and #validation_messages
    returned,          \* what the last validationJsError returned
    ret,               \* what the last validationJs returned
    console,           \* the lines the last validationJs wrote to the console
    lastCall,          \* the arguments and the form of the last validationJs
    runs               \* the number of validationJs runs so far

vars == <<page, form, validationErrors, validationDebug, display, returned, ret,
          console, lastCall, runs>>

\* validationJs runs in one session
MaxRuns == 2

NoCall ==
    [ran |-> FALSE, found |-> FALSE, form |-> <<>>, messages |-> NoMessages,
     attributeType |-> "name", previousKeys |-> {}, debug |-> FALSE]

Init ==
    /\ page \in Pages
    /\ form = page.form
    /\ validationErrors = <<>>
    /\ validationDebug = FALSE
    /\ display = Display(<<>>, <<>>)
    /\ returned = [called |-> FALSE, undefined |-> FALSE, errorMessages |-> <<>>]
    /\ ret = [value |-> TRUE, escaped |-> FALSE]
    /\ console = <<>>
    /\ lastCall = NoCall
    /\ runs = 0

\* the user edits an element
SetValue ==
    /\ \E e \in page.edits : form' = [form EXCEPT ![e.i] = ApplyEdit(@, e.value)]
    /\ UNCHANGED <<page, validationErrors, validationDebug, display, returned, ret,
                   console, lastCall, runs>>

\* the script calls validationJs(formElement, rules, messages, attributeType)
ValidationJs ==
    /\ runs < MaxRuns
    /\ \E formElement \in FormElements, messages \in page.messages,
          attributeType \in page.attrs :
          /\ \E result \in {validationJs(validationDebug, validationErrors, formElement,
                                         form, page.rules, messages, attributeType)} :
                /\ validationErrors' = result.errors
                /\ form' = result.form
                /\ ret' = [value |-> result.value, escaped |-> result.escaped]
                /\ console' = result.console
          /\ lastCall' = [ran |-> TRUE, found |-> ResolveForm(formElement),
                          form |-> form, messages |-> messages,
                          attributeType |-> attributeType,
                          previousKeys |-> ErrorKeys(validationErrors),
                          debug |-> validationDebug]
    /\ runs' = runs + 1
    /\ UNCHANGED <<page, validationDebug, display, returned>>

\* the script calls validationJsError(type, mode)
ValidationJsError ==
    /\ \E type \in {"raw", "toastr", "list"}, mode \in {"single", "multi"} :
          LET result == validationJsError(validationErrors, type, mode, display,
                                          page.toastr, page.messagesDiv)
          IN  /\ returned' = [called |-> TRUE, undefined |-> result.undefined,
                              errorMessages |-> result.errorMessages]
              /\ display' = result.display
    /\ UNCHANGED <<page, form, validationErrors, validationDebug, ret, console, lastCall,
                   runs>>

\* the script calls validationJsDebug(enable)
ValidationJsDebug ==
    /\ \E enable \in BOOLEAN : validationDebug' = enable
    /\ UNCHANGED <<page, form, validationErrors, display, returned, ret, console, lastCall,
                   runs>>

Next == SetValue \/ ValidationJs \/ ValidationJsError \/ ValidationJsDebug

Spec == Init /\ [][Next]_vars

(***************************************************************************)
(* What the checks below say about the last run.                           *)
(***************************************************************************)
\* the last run found its form and ended without the global entry
CleanRun == lastCall.ran /\ lastCall.found /\ "_global" \notin ErrorKeys(validationErrors)

\* the position in the last run's form of the element a plain field names
ElementOf(field) == QuerySelector(lastCall.form, lastCall.attributeType, field)

\* the positions in the last run's form of the elements an array field names
ElementsOf(field) == QuerySelectorAll(lastCall.form, lastCall.attributeType, field)

IsArrayField(field) == EndsWith(field, "[]")

\* the key of the n-th element (from 1) of the array field
IndexedKey(field, n) == SubSeq(field, 1, Len(field) - 2) \o "_" \o NatToString(n - 1)

\* the keys the array fields of the rules write in the last run
IndexedKeys ==
    {IndexedKey(page.rules[k].field, n) :
        k \in {j \in 1..Len(page.rules) : IsArrayField(page.rules[j].field)},
        n \in 1..Len(lastCall.form)}

\* the plain field names of the rules
PlainNames ==
    {page.rules[k].field : k \in {j \in 1..Len(page.rules) : ~IsArrayField(page.rules[j].field)}}

\* the outcome, in the last run, of the k-th rule of a chain on the element at i
OutcomeAt(i, rules, k) ==
    validateRule(getFieldValue(lastCall.form, i), parseRules(rules)[k], lastCall.form[i],
                 lastCall.form, lastCall.attributeType)

\* reading the chain left to right from its k-th rule: the first rule whose
\* outcome is not valid, 0 when there is none
RECURSIVE FirstInvalid(_, _, _)
FirstInvalid(i, rules, k) ==
    IF k > Len(parseRules(rules)) THEN 0
    ELSE IF ~OutcomeAt(i, rules, k).valid THEN k
    ELSE FirstInvalid(i, rules, k + 1)

\* the message of the k-th rule of the chain failing on the element at i
MessageAt(i, fieldName, messageName, suffix, rules, k) ==
    getErrorMessage(messageName, parseRules(rules)[k],
                    FieldMessagesOf(lastCall.messages, fieldName),
                    FieldLabel(FieldMessagesOf(lastCall.messages, fieldName), messageName)
                        \o suffix,
                    OutcomeAt(i, rules, k).message)

\* what the element at i must have recorded: nothing, or the one message of
\* the first rule that fails
FirstFailureOnly(i, fieldName, messageName, suffix, rules) ==
    IF FirstInvalid(i, rules, 1) = 0 THEN <<>>
    ELSE <<MessageAt(i, fieldName, messageName, suffix, rules, FirstInvalid(i, rules, 1))>>

\* C1: after a run, the store holds for every field that has an element (and
\* for every element of an array field) exactly the message of the first
\* rule of its chain, read left to right, that is not valid, and nothing
\* from the rules after it; a field whose rules all pass has no entry.
\* (Fields whose key another field also writes are left to C3.)
C1_FirstFailingRuleOnly ==
    CleanRun =>
        \A k \in 1..Len(page.rules) :
            LET field == page.rules[k].field
                rules == page.rules[k].rules
            IN  IF IsArrayField(field)
                THEN \A n \in 1..Len(ElementsOf(field)) :
                        IndexedKey(field, n) \notin PlainNames =>
                            ErrorsOf(validationErrors, IndexedKey(field, n))
                              = FirstFailureOnly(ElementsOf(field)[n], field,
                                    SubSeq(field, 1, Len(field) - 2),
                                    " #" \o NatToString(n), rules)
                ELSE (ElementOf(field) # 0 /\ field \notin IndexedKeys) =>
                        ErrorsOf(validationErrors, field)
                          = FirstFailureOnly(ElementOf(field), field, field, "", rules)

\* C1 witness: a field whose chain has two failing rules holds the message
\* of the first one only
C1_Witness ==
    /\ CleanRun
    /\ \E k \in 1..Len(page.rules) :
          LET field == page.rules[k].field
              rules == page.rules[k].rules
              chain == parseRules(rules)
          IN  /\ ~IsArrayField(field) /\ ElementOf(field) # 0
              /\ \E a, b \in 1..Len(chain) :
                    /\ a < b
                    /\ FirstInvalid(ElementOf(field), rules, 1) = a
                    /\ ~OutcomeAt(ElementOf(field), rules, b).valid
                    /\ ErrorsOf(validationErrors, field)
                         = <<MessageAt(ElementOf(field), field, field, "", rules, a)>>
                    /\ MessageAt(ElementOf(field), field, field, "", rules, a)
                         # MessageAt(ElementOf(field), field, field, "", rules, b)

\* the last run again, from an empty store
FreshRun ==
    validationJs(lastCall.debug, <<>>, FormElement(FALSE, "", lastCall.found),
                 lastCall.form, page.rules, lastCall.messages, lastCall.attributeType)

\* the store holds exactly the entries of errors, validationJsError('raw')
\* reads exactly those, and no other key of the run before is left
StoreHoldsOnly(errors) ==
    /\ validationErrors = errors
    /\ validationJsError(validationErrors, "raw", "single", display,
                         page.toastr, page.messagesDiv).errorMessages
         = Flatten(errors)
    /\ \A key \in lastCall.previousKeys :
          key \notin ErrorKeys(errors) => ErrorsOf(validationErrors, key) = <<>>

\* C2: whatever the store held before, after a run it holds exactly what that
\* run records when started from an empty store, and validationJsError('raw')
\* reads exactly those entries; a key of the run before that the last run
\* does not record is gone.
C2_StoreHoldsLastRunOnly == lastCall.ran => StoreHoldsOnly(FreshRun.errors)

\* C2 witness: a second run on a found form dropped the key of a field that
\* failed in the run before and passes now
C2_Witness ==
    /\ lastCall.ran /\ lastCall.found /\ runs >= 2
    /\ \E key \in lastCall.previousKeys \ {"_global"} :
          /\ key \in PlainNames
          /\ ElementOf(key) # 0
          /\ key \notin ErrorKeys(validationErrors)

\* C3: every key of the store holds at most one message
C3_AtMostOneMessagePerKey ==
    \A n \in 1..Len(validationErrors) : Len(validationErrors[n].messages) <= 1

\* a run that raises inside validationJs: the form is missing, or messages is
\* null and a field has an element, or a field name makes no valid selector
RunRaises ==
    \/ ~lastCall.found
    \/ \E k \in 1..Len(page.rules) :
          \/ SelectorThrows(page.rules[k].field)
          \/ /\ lastCall.messages.isNull
             /\ IF IsArrayField(page.rules[k].field)
                THEN Len(ElementsOf(page.rules[k].field)) > 0
                ELSE ElementOf(page.rules[k].field) # 0

\* C4: no call of validationJs ends with an exception at the caller; a run
\* that raises inside returns false and leaves one message under _global;
\* with the form missing that entry is the only one.
C4_NoExceptionEscapes ==
    /\ ~ret.escaped
    /\ (lastCall.ran /\ RunRaises) =>
          /\ ret.value = FALSE
          /\ Len(ErrorsOf(validationErrors, "_global")) = 1
    /\ (lastCall.ran /\ ~lastCall.found) =>
          validationErrors =
            <<[key |-> "_global",
               messages |-> <<"Validation system error: Form element not found">>]>>

\* C4 witness: a run on a missing form, after a run that recorded errors,
\* returned false and left the global entry alone
C4_Witness ==
    /\ lastCall.ran /\ ~lastCall.found
    /\ lastCall.previousKeys # {} /\ "_global" \notin lastCall.previousKeys
    /\ ret = [value |-> FALSE, escaped |-> FALSE]
    /\ ErrorKeys(validationErrors) = {"_global"}

\* An exception raised inside a validator that has a try / catch of its own
\* around it: validateRequired(value) called without its element
\* (required_with, required_unless), or a parameter that makes no valid
\* selector (required_with, required_unless, gt, lt, lte).
CaughtInside(value, rule, theForm, attributeType) ==
    LET name       == rule.name
        parameters == rule.parameters
    IN  CASE name = "required_with" ->
                RequiredWithScan(parameters, 1, theForm, attributeType) \in {"throws", "value"}
          [] name = "required_unless" ->
                /\ Len(parameters) >= 2
                /\ \/ SelectorThrows(parameters[1])
                   \/ QuerySelector(theForm, attributeType, parameters[1]) = 0
                   \/ ~SeqIncludes(Tail(parameters),
                         ToStr(getFieldValue(theForm,
                                 QuerySelector(theForm, attributeType, parameters[1]))))
          [] name \in {"gt", "lt", "lte"} ->
                ~IsBlank(value) /\ Len(parameters) > 0 /\ SelectorThrows(parameters[1])
          [] OTHER -> FALSE

\* in the last run, the validator of the k-th rule lets an exception out
EscapesAt(i, rules, k) ==
    RuleDispatch(getFieldValue(lastCall.form, i), parseRules(rules)[k], lastCall.form[i],
                 lastCall.form, lastCall.attributeType).threw

\* in the last run, the validator of the k-th rule catches its own exception
CaughtInsideAt(i, rules, k) ==
    CaughtInside(getFieldValue(lastCall.form, i), parseRules(rules)[k], lastCall.form,
                 lastCall.attributeType)

GenericMessage(rule) == "Validation error for rule " \o rule.name

\* the plain fields of the rules that have an element in the last run, as
\* positions in the rules
PresentPlain ==
    {k \in 1..Len(page.rules) :
        /\ ~IsArrayField(page.rules[k].field)
        /\ ~SelectorThrows(page.rules[k].field)
        /\ ElementOf(page.rules[k].field) # 0}

StripUnknown(rules) ==
    Join(SelectSeq(Split(rules.s, "|"), LAMBDA token : parseRule(token).name \in KnownRules),
         "|")

\* the rules with the unknown rule names taken out of every chain, and the
\* fields whose chain is then empty taken out altogether
KnownRulesOnly ==
    LET kept == SelectSeq(page.rules, LAMBDA f : StripUnknown(f.rules) # "")
    IN  [k \in 1..Len(kept) |-> [field |-> kept[k].field, rules |-> Str(StripUnknown(kept[k].rules))]]

\* C6: a rule whose name validateRule has no case for, the empty name of an
\* empty token included, is valid for the value of every field, and the run
\* records and returns what it does with those rules left out.
C6_UnknownRuleIsValid ==
    (lastCall.ran /\ lastCall.found) =>
        /\ \A k \in PresentPlain :
              \A r \in 1..Len(parseRules(page.rules[k].rules)) :
                  parseRules(page.rules[k].rules)[r].name \notin KnownRules =>
                      OutcomeAt(ElementOf(page.rules[k].field), page.rules[k].rules, r) = Valid
        /\ LET without == validationJs(lastCall.debug, <<>>, FormElement(FALSE, "", TRUE),
                                       lastCall.form, KnownRulesOnly, lastCall.messages,
                                       lastCall.attributeType)
           IN  validationErrors = without.errors /\ ret.value = without.value

\* C6 witness: a run returned true with no entry for a field whose chain
\* holds an empty rule name and another unknown name among rules that pass
C6_Witness ==
    /\ CleanRun /\ ret.value = TRUE /\ validationErrors = <<>>
    /\ \E k \in PresentPlain :
          LET chain == parseRules(page.rules[k].rules)
          IN  \E a, b, c \in 1..Len(chain) :
                 /\ chain[a].name = ""
                 /\ chain[b].name \notin KnownRules \cup {""}
                 /\ chain[c].name = "required"

\* whether the field has an element (elements, for an array field) in the last run
HasElement(field) ==
    IF IsArrayField(field) THEN Len(ElementsOf(field)) > 0 ELSE ElementOf(field) # 0

\* the rules of the fields that have an element in the last run
PresentRules ==
    SelectSeq(page.rules, LAMBDA f : SelectorThrows(f.field) \/ HasElement(f.field))

NullableRules ==
    KnownRules \ {"required", "required_if", "required_with", "required_unless", "accepted"}

\* the empty values
BlankValues == {Str(""), Null, Undef}

\* parameter lists to try: none, a field of the form, a field it lacks, a range
ProbeParameters == {<<>>, <<"other">>, <<"pw">>, <<"missing">>, <<"18", "65">>}

\* C8: every rule other than required, required_if, required_with,
\* required_unless and accepted is valid on an empty-string, null or
\* undefined value, for every parameter list and whatever the other fields
\* hold; and a run records nothing for a field whose value is empty and
\* whose chain holds such rules only.
C8_NullableByDefault ==
    /\ CleanRun =>
          \A i \in 1..Len(form), name \in NullableRules, parameters \in ProbeParameters,
             value \in BlankValues :
             validateRule(value, Rule(name, parameters), form[i], form, "name").valid
    /\ CleanRun =>
          \A k \in PresentPlain :
              LET field == page.rules[k].field
                  chain == parseRules(page.rules[k].rules)
              IN  (/\ IsBlank(getFieldValue(lastCall.form, ElementOf(field)))
                   /\ \A r \in 1..Len(chain) : chain[r].name \in NullableRules)
                      => ErrorsOf(validationErrors, field) = <<>>

\* what required rejects: null, undefined, the empty or whitespace-only
\* string, the empty array and, on a file field, the empty file list
EmptyForRequired(value, element) ==
    \/ value.t \in {"null", "undefined"}
    \/ (value.t = "string" /\ \A n \in 1..Len(value.s) : Ch(value.s, n) \in WhiteSpace)
    \/ (value.t = "array" /\ Len(value.a) = 0)
    \/ (element.type = "file" /\ value.t = "files" /\ Len(value.f) = 0)

\* values to try on the elements that are no file inputs
RequiredProbes ==
    {Null, Undef, Str(""), Str(" "), Str(" \t\n"), Str("0"), Str(" a "), Num(0), Num(Scale),
     Bool(FALSE), Bool(TRUE), Arr(<<>>), Arr(<<"">>), Arr(<<"a", "b">>)}

\* C9: required fails exactly on null, undefined, the empty string, a
\* whitespace-only string, the empty array and the empty file list of a file
\* field, and passes on every other value ("0" among them); a run records
\* the required message for a field under `required` exactly when its value
\* is one of those.
C9_RequiredFailsOnEmptyOnly ==
    /\ \A i \in 1..Len(form) :
          /\ validateRule(getFieldValue(form, i), Rule("required", <<>>), form[i], form,
                          "name").valid
               = ~EmptyForRequired(getFieldValue(form, i), form[i])
          /\ form[i].type # "file" =>
                \A value \in RequiredProbes :
                    validateRule(value, Rule("required", <<>>), form[i], form, "name").valid
                      = ~EmptyForRequired(value, form[i])
    /\ CleanRun =>
          \A k \in PresentPlain :
              LET field == page.rules[k].field
                  i     == ElementOf(field)
              IN  (page.rules[k].rules = Str("required") /\ field \notin IndexedKeys) =>
                      ErrorsOf(validationErrors, field)
                        = IF EmptyForRequired(getFieldValue(lastCall.form, i), lastCall.form[i])
                          THEN <<MessageAt(i, field, field, "", Str("required"), 1)>>
                          ELSE <<>>

\* C9 witness: one run left no entry for a field holding "0" and the
\* required message for a field holding only spaces, for an empty file
\* input, for a multiple select with nothing picked and for an element with
\* no value
C9_Witness ==
    /\ CleanRun
    /\ \E zero, blank, photo, tags, note \in PresentPlain :
          LET Holds(k)   == getFieldValue(lastCall.form, ElementOf(page.rules[k].field))
              Stored(k)  == ErrorsOf(validationErrors, page.rules[k].field)
              Only(k)    == page.rules[k].rules = Str("required")
          IN  /\ Only(zero) /\ Holds(zero) = Str("0") /\ Stored(zero) = <<>>
              /\ Only(blank) /\ Holds(blank).t = "string" /\ Len(Holds(blank).s) > 0
                    /\ Len(Stored(blank)) = 1
              /\ Only(photo) /\ Holds(photo).t = "files" /\ Len(Stored(photo)) = 1
              /\ Only(tags) /\ Holds(tags) = Arr(<<>>) /\ Len(Stored(tags)) = 1
              /\ Only(note) /\ Holds(note) = Undef /\ Len(Stored(note)) = 1

\* C10: between:18,65 compares a numeric value by its number, inclusively,
\* whether it is a number or the numeric string of a text field: 18 and 65
\* pass, 17 and 66 fail; and a run records nothing for a text field holding
\* "18" or "65" under that rule.
C10_BetweenNumericInclusive ==
    /\ \A i \in 1..Len(form), n \in {17, 18, 65, 66} :
          (CleanRun /\ form[i].type = "text") =>
              /\ validateRule(Num(n * Scale), Rule("between", <<"18", "65">>), form[i], form,
                              "name").valid = (n \in 18..65)
              /\ validateRule(Str(NatToString(n)), Rule("between", <<"18", "65">>), form[i],
                              form, "name").valid = (n \in 18..65)
    /\ CleanRun =>
          \A k \in PresentPlain :
              LET field == page.rules[k].field
                  chain == parseRules(page.rules[k].rules)
              IN  (/\ getFieldValue(lastCall.form, ElementOf(field)) \in {Str("18"), Str("65")}
                   /\ \A r \in 1..Len(chain) :
                         chain[r] \in {Rule("integer", <<>>), Rule("between", <<"18", "65">>)})
                      => ErrorsOf(validationErrors, field) = <<>>


\* what min:n and max:n compare with n, by the shape of the value: the
\* number of files of a file field, the number of a numeric-looking value,
\* the number of trimmed non-empty elements of an array or of a string with
\* a comma, the length of any other string
ShapeMeasure(value, element) ==
    CASE element.type = "file" -> Finite(Len(value.f) * Scale)
      [] element.type # "file" /\ isNumericValue(value) -> ParseFloat(value)
      [] element.type # "file" /\ ~isNumericValue(value) /\ value.t = "array" ->
            Finite(Len(value.a) * Scale)
      [] element.type # "file" /\ ~isNumericValue(value) /\ value.t = "string"
            /\ Includes(value.s, ",") ->
            Finite(Cardinality({k \in 1..Len(Split(value.s, ",")) :
                                    Trim(Split(value.s, ",")[k]) # ""}) * Scale)
      [] OTHER -> Finite(Len(value.s) * Scale)

\* values to try on the elements that are no file inputs
ShapeProbes ==
    {Str("a,b,c"), Str("a, ,b"), Str(","), Str("1,5"), Str("10"), Str(" 7 "), Str("2.5"),
     Str("-3"), Str("abc"), Str("ab"), Str("1e1"), Str("12abc"), Arr(<<"x", "y", "z">>),
     Arr(<<"x">>), Num(3 * Scale), Num(10 * Scale)}

\* the n of min:n and max:n to try
ShapeLimits == {"1", "2", "3", "5", "2.5"}

ComparedFields ==
    {k \in PresentPlain :
        /\ page.rules[k].field \notin IndexedKeys
        /\ Len(parseRules(page.rules[k].rules)) = 1
        /\ parseRules(page.rules[k].rules)[1].name \in {"confirmed", "same"}
        /\ parseRules(page.rules[k].rules)[1].name = "same"
              => Len(parseRules(page.rules[k].rules)[1].parameters) = 1}

\* the field the k-th rules compare with: <field>_confirmation, or the
\* parameter of same
CompareField(k) ==
    IF parseRules(page.rules[k].rules)[1].name = "confirmed"
    THEN page.rules[k].field \o "_confirmation"
    ELSE parseRules(page.rules[k].rules)[1].parameters[1]

\* the message the validator gives when the compare field is absent
NotFoundText(name) ==
    IF name = "confirmed" THEN "Confirmation field not found"
    ELSE "Comparison field not found"

\* the message recorded for the k-th rules when the compare field is absent
\* (found = FALSE) and when it is present with another value (found = TRUE)
ComparedMessage(k, found) ==
    LET field == page.rules[k].field
        rule  == parseRules(page.rules[k].rules)[1]
        fieldMessages == FieldMessagesOf(lastCall.messages, field)
    IN  getErrorMessage(field, rule, fieldMessages, FieldLabel(fieldMessages, field),
                        IF found THEN "" ELSE NotFoundText(rule.name))

\* what the store must hold for the k-th rules after the last run
ComparedAsExpected(k) ==
    LET field  == page.rules[k].field
        other  == QuerySelector(lastCall.form, lastCall.attributeType, CompareField(k))
        stored == ErrorsOf(validationErrors, field)
    IN  IF other = 0 THEN stored = <<ComparedMessage(k, FALSE)>>
        ELSE IF StrictEq(getFieldValue(lastCall.form, ElementOf(field)),
                         getFieldValue(lastCall.form, other))
             THEN stored = <<>>
        ELSE stored = <<ComparedMessage(k, TRUE)>>

\* C12 as stated: after a run, a field under `confirmed` or `same:field`
\* holds one message when the compare field is absent and another when it is
\* present with a different value, so that the recorded message tells the
\* two cases apart.
C12_MessageTellsCasesApart ==
    CleanRun =>
        \A k \in ComparedFields :
            /\ ComparedAsExpected(k)
            /\ ComparedMessage(k, FALSE) # ComparedMessage(k, TRUE)

\* C12: after a run, a field under `confirmed` or `same:field` has no entry
\* when the compare field is present with the same value, and one message
\* otherwise.  Without a message of the caller for the rule, that message is
\* the validator's "not found" text when the compare field is absent and
\* the rule's default text when it is present with a different value, and
\* the two differ; with a message of the caller for the rule, both cases
\* record that message.
C12_NotFoundOrMismatch ==
    CleanRun =>
        \A k \in ComparedFields :
            LET field == page.rules[k].field
                rule  == parseRules(page.rules[k].rules)[1]
                fieldMessages == FieldMessagesOf(lastCall.messages, field)
                label == FieldLabel(fieldMessages, field)
            IN  /\ ComparedAsExpected(k)
                /\ IF MessageFor(fieldMessages, rule.name) = ""
                   THEN /\ ComparedMessage(k, FALSE) = NotFoundText(rule.name)
                        /\ ComparedMessage(k, TRUE)
                             = IF rule.name = "confirmed"
                               THEN "The " \o label \o " confirmation does not match."
                               ELSE "The " \o label \o " field must match "
                                       \o rule.parameters[1] \o "."
                        /\ ComparedMessage(k, FALSE) # ComparedMessage(k, TRUE)
                   ELSE /\ ComparedMessage(k, FALSE) = ComparedMessage(k, TRUE)
                        /\ ComparedMessage(k, TRUE)
                             = replacePlaceholders(MessageFor(fieldMessages, rule.name),
                                                   field, rule, label)

\* C12 witness: one run without messages of the caller recorded the "not
\* found" text for a confirmed field and for a same field whose compare
\* field is absent, and the default texts for a confirmed field and a same
\* field whose compare field holds another value
C12_Witness ==
    /\ CleanRun
    /\ lastCall.messages = NoMessages
    /\ \E a, b, c, d \in ComparedFields :
          LET Name(k)   == parseRules(page.rules[k].rules)[1].name
              Absent(k) == QuerySelector(lastCall.form, lastCall.attributeType,
                                         CompareField(k)) = 0
              Stored(k) == ErrorsOf(validationErrors, page.rules[k].field)
          IN  /\ Name(a) = "confirmed" /\ Absent(a)
                    /\ Stored(a) = <<"Confirmation field not found">>
              /\ Name(b) = "same" /\ Absent(b)
                    /\ Stored(b) = <<"Comparison field not found">>
              /\ Name(c) = "confirmed" /\ ~Absent(c)
                    /\ Stored(c) = <<"The Pw confirmation does not match.">>
              /\ Name(d) = "same" /\ ~Absent(d)
                    /\ Stored(d) = <<"The Again field must match pw.">>

\* the fields of the last run under the one rule `name` with at least
\* `least` parameters, as positions in the rules
FieldsUnder(name, least) ==
    {k \in PresentPlain :
        /\ page.rules[k].field \notin IndexedKeys
        /\ Len(parseRules(page.rules[k].rules)) = 1
        /\ parseRules(page.rules[k].rules)[1].name = name
        /\ Len(parseRules(page.rules[k].rules)[1].parameters) >= least
        /\ \A p \in 1..Len(parseRules(page.rules[k].rules)[1].parameters) :
              ~SelectorThrows(parseRules(page.rules[k].rules)[1].parameters[p])}

\* the field's own value in the last run is empty in the sense of required
OwnValueEmpty(k) ==
    EmptyForRequired(getFieldValue(lastCall.form, ElementOf(page.rules[k].field)),
                     lastCall.form[ElementOf(page.rules[k].field)])

\* a field of the last run's form exists under this name and has a
\* non-empty value
ListedHasValue(fieldName) ==
    LET other == QuerySelector(lastCall.form, lastCall.attributeType, fieldName)
    IN  /\ other # 0
        /\ ~EmptyForRequired(getFieldValue(lastCall.form, other), lastCall.form[other])

\* C13: after a run, a field under required_with:f1,f2,... has a message
\* exactly when at least one listed field exists with a non-empty value and
\* the field's own value is empty; with its own value non-empty, or with no
\* listed field holding a value, it has no entry.
C13_RequiredWithAnyListed ==
    CleanRun =>
        \A k \in FieldsUnder("required_with", 1) :
            LET parameters == parseRules(page.rules[k].rules)[1].parameters
                required   == \E p \in 1..Len(parameters) : ListedHasValue(parameters[p])
            IN  (ErrorsOf(validationErrors, page.rules[k].field) # <<>>)
                  = (required /\ OwnValueEmpty(k))

\* C14: after a run, a field under required_unless:field,v1,... has a
\* message exactly when the target field's value is none of the listed
\* values and the field's own value is empty; with its own value non-empty,
\* or with the target holding a listed value, it has no entry.
C14_RequiredUnlessListed ==
    CleanRun =>
        \A k \in FieldsUnder("required_unless", 2) :
            LET parameters == parseRules(page.rules[k].rules)[1].parameters
                target     == QuerySelector(lastCall.form, lastCall.attributeType,
                                            parameters[1])
                listed     == /\ target # 0
                              /\ \E p \in 2..Len(parameters) :
                                    parameters[p] = ToStr(getFieldValue(lastCall.form, target))
            IN  (ErrorsOf(validationErrors, page.rules[k].field) # <<>>)
                  = (~listed /\ OwnValueEmpty(k))

\* the rules the default templates of getErrorMessage have a text for
TemplateRules == KnownRules \ {"currency", "double", "float", "nullable", "sometimes"}

\* the text a failed rule's message is made from: the caller's message for
\* the rule, else the validator's own, else the default template of the
\* rule, else the fallback
ResolvedText(rule, fieldMessages, label, customMessage) ==
    IF MessageFor(fieldMessages, rule.name) # "" THEN MessageFor(fieldMessages, rule.name)
    ELSE IF customMessage # "" THEN customMessage
    ELSE IF rule.name \in TemplateRules
         THEN defaultMessages(rule.name, rule.parameters, label)
    ELSE "The " \o label \o " field is invalid."

\* the plain fields of the last run that recorded a failure, as positions
\* in the rules
FailedFields ==
    {k \in PresentPlain :
        /\ page.rules[k].field \notin IndexedKeys
        /\ FirstInvalid(ElementOf(page.rules[k].field), page.rules[k].rules, 1) # 0}

\* the rule of the k-th rules that failed in the last run, and what its
\* validator returned
FailedRule(k) ==
    parseRules(page.rules[k].rules)[
        FirstInvalid(ElementOf(page.rules[k].field), page.rules[k].rules, 1)]

FailedOutcome(k) ==
    OutcomeAt(ElementOf(page.rules[k].field), page.rules[k].rules,
              FirstInvalid(ElementOf(page.rules[k].field), page.rules[k].rules, 1))

\* C15: after a run, the message of a field's failed rule is the caller's
\* message for that rule when there is one, else the message the validator
\* returned when there is one, else the default template of the rule (the
\* text "The <label> field is invalid." when the rule has none), in each
\* case after the placeholder substitution.
C15_MessageResolutionOrder ==
    CleanRun =>
        \A k \in FailedFields :
            LET field == page.rules[k].field
                fieldMessages == FieldMessagesOf(lastCall.messages, field)
                label == FieldLabel(fieldMessages, field)
            IN  ErrorsOf(validationErrors, field)
                  = <<replacePlaceholders(
                        ResolvedText(FailedRule(k), fieldMessages, label,
                                     FailedOutcome(k).message),
                        field, FailedRule(k), label)>>

\* C15 witness: one run recorded the caller's message, placeholders
\* replaced, for a rule whose validator returned a message of its own; the
\* validator's message for a rule without a message of the caller; the
\* default template for a rule with neither; and the fallback for a rule
\* without a template
C15_Witness ==
    /\ CleanRun
    /\ \E a, b, c, d \in FailedFields :
          LET Stored(k)   == ErrorsOf(validationErrors, page.rules[k].field)
              Override(k) == MessageFor(FieldMessagesOf(lastCall.messages,
                                                        page.rules[k].field),
                                        FailedRule(k).name)
          IN  /\ Override(a) = "Upload :param[0] or :param[1], not :field" /\ FailedOutcome(a).message # ""
                    /\ Stored(a) = <<"Upload jpg or png, not doc">>
              /\ Override(b) = "" /\ FailedOutcome(b).message # ""
                    /\ Stored(b) = <<FailedOutcome(b).message>>
              /\ Override(c) = "" /\ FailedOutcome(c).message = ""
                    /\ FailedRule(c).name = "required"
                    /\ Stored(c) = <<"The Nick field is required.">>
              /\ Override(d) = "" /\ FailedOutcome(d).message = ""
                    /\ FailedRule(d).name = "currency"
                    /\ Stored(d) = <<"The Price field is invalid.">>

\* the caller's message for the failed rule of the k-th rules
CallerMessage(k) ==
    MessageFor(FieldMessagesOf(lastCall.messages, page.rules[k].field), FailedRule(k).name)

\* C16: the message of a failed between:a,b rule has :min_value replaced by
\* a and :max_value by b: 'Age must be between :min_value and :max_value
\* years' under between:18,65 reads 'Age must be between 18 and 65 years';
\* and the message of a failed dimensions rule has :min_width replaced by
\* the value of the min_width constraint.  After a run, a field that failed
\* under such a rule with such a message of the caller holds that text.
C16_RuleSpecificPlaceholders ==
    CleanRun =>
        /\ getErrorMessage("age", Rule("between", <<"18", "65">>),
                           {Entry("age", "between",
                                  "Age must be between :min_value and :max_value years")},
                           "Age", "")
             = "Age must be between 18 and 65 years"
        /\ getErrorMessage("pic", Rule("dimensions", <<"min_width=100">>),
                           {Entry("pic", "dimensions", "At least :min_width px wide")},
                           "Pic", "")
             = "At least 100 px wide"
        /\ \A k \in FailedFields :
              LET stored == ErrorsOf(validationErrors, page.rules[k].field)
              IN  /\ (/\ FailedRule(k) = Rule("between", <<"18", "65">>)
                      /\ CallerMessage(k)
                           = "Age must be between :min_value and :max_value years")
                        => stored = <<"Age must be between 18 and 65 years">>
                  /\ (/\ FailedRule(k) = Rule("dimensions", <<"min_width=100">>)
                      /\ CallerMessage(k) = "At least :min_width px wide")
                        => stored = <<"At least 100 px wide">>

\* C17: the message of a failed in, not_in or mimes rule has :values
\* replaced by the parameters joined with ', ', and :value alone replaced
\* by 'the input'.  After a run, a field that failed under in or not_in
\* with such a message of the caller holds the text with those
\* replacements.
C17_ValuesPlaceholder ==
    CleanRun =>
        /\ \A name \in {"in", "not_in", "mimes"} :
              /\ getErrorMessage("f", Rule(name, <<"green", "blue">>),
                                 {Entry("f", name, "Pick one of :values, not :value")}, "F", "")
                   = "Pick one of green, blue, not the input"
              /\ getErrorMessage("f", Rule(name, <<"green", "blue">>),
                                 {Entry("f", name, "Not :value")}, "F", "")
                   = "Not the input"
        /\ \A k \in FailedFields :
              LET stored == ErrorsOf(validationErrors, page.rules[k].field)
              IN  /\ (/\ FailedRule(k) = Rule("in", <<"green", "blue">>)
                      /\ CallerMessage(k) = "Pick one of :values, not :value")
                        => stored = <<"Pick one of green, blue, not the input">>
                  /\ (/\ FailedRule(k) = Rule("not_in", <<"x", "y">>)
                      /\ CallerMessage(k) = ":label may not be :values")
                        => stored = <<"Kind may not be x, y">>

\* the array fields of the rules that have elements in the last run, as
\* positions in the rules
PresentArrays ==
    {k \in 1..Len(page.rules) :
        /\ IsArrayField(page.rules[k].field)
        /\ ~SelectorThrows(page.rules[k].field)
        /\ Len(ElementsOf(page.rules[k].field)) > 0}

\* the last run's form with another value in every element of the array
\* field other than its n-th
OthersChanged(field, n) ==
    [j \in 1..Len(lastCall.form) |->
        IF \E m \in 1..Len(ElementsOf(field)) : m # n /\ ElementsOf(field)[m] = j
        THEN [lastCall.form[j] EXCEPT
                 !.value = IF @ = Str("") THEN Str("other") ELSE Str("")]
        ELSE lastCall.form[j]]

\* what a run on that form records under a key
StoredWithOthersChanged(field, n, key) ==
    ErrorsOf(validationJs(lastCall.debug, <<>>, FormElement(FALSE, "", TRUE),
                          OthersChanged(field, n), page.rules, lastCall.messages,
                          lastCall.attributeType).errors,
             key)

\* C18: after a run, the n-th element (from 1) of an array field base[]
\* holds under the key base_<n-1>, and under no other key, the one message
\* of the first rule of the chain that fails on its own value, with the
\* label followed by " #<n>", and no entry when all rules pass; what the
\* other elements of the field hold changes neither.  (Keys a plain field
\* writes as well are left to C3.)
C18_ArrayElementsIndependent ==
    CleanRun =>
      /\ ErrorKeys(validationErrors)
            \subseteq PlainNames \cup
                      {IndexedKey(page.rules[k].field, n) :
                          k \in PresentArrays, n \in 1..Len(lastCall.form)}
      /\ \A k \in PresentArrays :
            LET field == page.rules[k].field
                rules == page.rules[k].rules
                base  == SubSeq(field, 1, Len(field) - 2)
                fieldMessages == FieldMessagesOf(lastCall.messages, field)
            IN  \A n \in 1..Len(ElementsOf(field)) :
                    LET i      == ElementsOf(field)[n]
                        key    == base \o "_" \o NatToString(n - 1)
                        failed == FirstInvalid(i, rules, 1)
                    IN  key \notin PlainNames =>
                          /\ ErrorsOf(validationErrors, key)
                               = IF failed = 0 THEN <<>>
                                 ELSE <<getErrorMessage(base, parseRules(rules)[failed],
                                            fieldMessages,
                                            FieldLabel(fieldMessages, base) \o " #"
                                                \o NatToString(n),
                                            OutcomeAt(i, rules, failed).message)>>
                          /\ StoredWithOthersChanged(field, n, key)
                               = ErrorsOf(validationErrors, key)

\* C18 witness: a run on three elements of skills[] under required|min:2,
\* the second one empty, recorded the required message with the label
\* "Skills #2" under skills_1 and nothing else
C18_Witness ==
    /\ CleanRun
    /\ \E k \in PresentArrays :
          /\ page.rules[k] = FieldRules("skills[]", "required|min:2")
          /\ Len(ElementsOf("skills[]")) = 3
          /\ getFieldValue(lastCall.form, ElementsOf("skills[]")[2]) = Str("")
    /\ validationErrors
         = <<[key |-> "skills_1", messages |-> <<"The Skills #2 field is required.">>]>>
    /\ ret.value = FALSE

\* the last run again, from an empty store, with validationDebug as given
DebugRun(debug) ==
    validationJs(debug, <<>>, FormElement(FALSE, "", lastCall.found), lastCall.form,
                 page.rules, lastCall.messages, lastCall.attributeType)

\* the two runs end alike, and the last run ended like them
SameOutcome(enabled, disabled) ==
    /\ enabled.errors = disabled.errors
    /\ enabled.value = disabled.value
    /\ enabled.escaped = disabled.escaped
    /\ enabled.form = disabled.form
    /\ validationErrors = (IF lastCall.debug THEN disabled ELSE enabled).errors
    /\ ret.value = (IF lastCall.debug THEN disabled ELSE enabled).value

\* C19: a run with validationDebug enabled and a run with it disabled, on
\* the same form with the same rules and messages, return the same boolean,
\* leave the same store and mark the same elements; the store and the
\* boolean of the last run are those, whatever the flag was.
C19_DebugDoesNotChangeOutcome ==
    lastCall.ran => SameOutcome(DebugRun(TRUE), DebugRun(FALSE))

\* C19 witness: a run with the flag enabled recorded failures and traced
\* them on the console, where the same run with the flag disabled writes
\* nothing
C19_Witness ==
    /\ lastCall.ran /\ lastCall.found /\ lastCall.debug
    /\ ret.value = FALSE
    /\ validationErrors # <<>>
    /\ console = DebugRun(TRUE).console
    /\ \E n \in 1..Len(console) :
          /\ console[n].level = "log"
          /\ StartsWith(console[n].text, "Validation failed for ")
    /\ console[Len(console)] = Line("log", "Errors:")
    /\ DebugRun(FALSE).console = <<>>

\* C20: a run started after an earlier run leaves every entry the earlier
\* run recorded in the store it recorded it in: no key of the earlier run is
\* discarded and none has its messages changed, whether or not the earlier
\* errors were read and whether or not a dimensions check was pending.
C20_RunKeepsEarlierErrors ==
    [][(lastCall.ran /\ runs' = runs + 1) =>
          \A key \in ErrorKeys(validationErrors) :
              /\ key \in ErrorKeys(validationErrors')
              /\ ErrorsOf(validationErrors', key) = ErrorsOf(validationErrors, key)]_vars

\* constraints[key] of validateDimensions: parseInt of the value of the last
\* `key=val` parameter with that key, NaN when there is none
DimensionConstraint(parameters, key) ==
    LET named == {k \in 1..Len(parameters) :
                     LET parts == Split(parameters[k], "=")
                     IN  /\ Len(parts) >= 2 /\ parts[1] # "" /\ parts[2] # ""
                         /\ Trim(parts[1]) = key}
        last  == CHOOSE k \in named : \A j \in named : j <= k
    IN  IF named = {} THEN NaN ELSE ParseIntStr(Trim(Split(parameters[last], "=")[2]))

\* what img.onload resolves the Promise with: every listed constraint is met
\* by the decoded width and height
DimensionsMet(file, parameters) ==
    LET Listed(key) == ~DimensionConstraint(parameters, key).nan
                         /\ DimensionConstraint(parameters, key).v # 0
        Limit(key)  == DimensionConstraint(parameters, key).v
    IN  /\ ~(Listed("min_width") /\ file.width * Scale < Limit("min_width"))
        /\ ~(Listed("max_width") /\ file.width * Scale > Limit("max_width"))
        /\ ~(Listed("min_height") /\ file.height * Scale < Limit("min_height"))
        /\ ~(Listed("max_height") /\ file.height * Scale > Limit("max_height"))
        /\ ~(Listed("width") /\ file.width * Scale # Limit("width"))
        /\ ~(Listed("height") /\ file.height * Scale # Limit("height"))

\* the fields of the last run under `dimensions` alone that hold an image the
\* browser can decode
DecodedFields ==
    {k \in PresentPlain :
        LET chain == parseRules(page.rules[k].rules)
            value == getFieldValue(lastCall.form, ElementOf(page.rules[k].field))
        IN  /\ Len(chain) = 1 /\ chain[1].name = "dimensions"
            /\ value.t = "files" /\ Len(value.f) > 0
            /\ value.f[1].type \in DecodableImageTypes}

\* C21: a field under `dimensions` holding a decodable image passes the run
\* when the decoded width and height meet every listed constraint and fails
\* otherwise; the pending outcome is not recorded as a failure.
C21_DimensionsVerdictIsDecodedCheck ==
    CleanRun =>
        \A k \in DecodedFields :
            (ErrorsOf(validationErrors, page.rules[k].field) = <<>>)
              <=> DimensionsMet(lastCall.form[ElementOf(page.rules[k].field)].files[1],
                                parseRules(page.rules[k].rules)[1].parameters)

\* the fields of the last run under the one rule `date_format:<format>` that
\* hold a non-empty string
FormatFields(format) ==
    {k \in PresentPlain :
        /\ parseRules(page.rules[k].rules) = <<Rule("date_format", <<format>>)>>
        /\ getFieldValue(lastCall.form, ElementOf(page.rules[k].field)).t = "string"
        /\ getFieldValue(lastCall.form, ElementOf(page.rules[k].field)).s # ""}

\* the text the last run read from the field of the k-th rules entry
TextOf(k) == getFieldValue(lastCall.form, ElementOf(page.rules[k].field)).s

\* the last run recorded nothing for the field of the k-th rules entry
Passed(k) == ErrorsOf(validationErrors, page.rules[k].field) = <<>>

\* C22: under date_format:Y-m-d a run accepts "2024-01-15" and "2024-1-15"
\* and rejects "2024-13-01" and "15-01-2024".
C22_YmdPaddedOrNot ==
    CleanRun =>
        \A k \in FormatFields("Y-m-d") :
            /\ TextOf(k) \in {"2024-01-15", "2024-1-15"} => Passed(k)
            /\ TextOf(k) \in {"2024-13-01", "15-01-2024"} => ~Passed(k)

\* new Date(text) where engines differ: an Invalid Date, or any day near the
\* one the text reads as
EngineDates == {NaN} \cup {Finite(DaysFromCivil(2024, 1, 15) * MinutesPerDay + shift * 60) :
                              shift \in -14..14}

\* Whatever Date an engine builds from the unpadded text, the comparison of
\* lines 887..892 rejects it: toISOString is zero-padded and the value is not.
UnpaddedRejectedByEveryEngine ==
    \A date \in EngineDates :
        ~CheckedDate([threw |-> FALSE, undefined |-> FALSE, date |-> date],
                     "2024-1-15", "Y-m-d").valid

\* the day-bearing formats written with digits and a separator, with the
\* 0-based positions of day, month and year among the parts of a value
DayFormats ==
    {"d/m/Y", "DD/MM/YYYY", "m/d/Y", "MM/DD/YYYY", "d-m-Y", "DD-MM-YYYY", "m-d-Y",
     "MM-DD-YYYY", "d.m.Y", "DD.MM.YYYY", "Y/m/d", "YYYY/MM/DD", "Y-m-d", "YYYY-MM-DD"}

\* the separator of a day-bearing format
SeparatorOf(format) ==
    IF Includes(format, "/") THEN "/" ELSE IF Includes(format, ".") THEN "." ELSE "-"

\* the value of a day-bearing format as [y, m, d], read by the letters of
\* the format
ReadDay(value, format) ==
    LET parts   == Split(value, SeparatorOf(format))
        letters == Split(format, SeparatorOf(format))
        At(set) == ToNat(parts[CHOOSE k \in 1..3 : letters[k] \in set])
    IN  [y |-> At({"Y", "YYYY"}), m |-> At({"m", "MM"}), d |-> At({"d", "DD"})]

\* a real calendar date
IsCalendarDate(c) == c.m \in 1..12 /\ c.d \in 1..DaysInMonth(c.y, c.m)

\* the day c written in a day-bearing format, two digits for month and day
WriteDay(c, format) ==
    LET letters == Split(format, SeparatorOf(format))
        Piece(l) == IF l \in {"Y", "YYYY"} THEN Pad(c.y, 4)
                    ELSE IF l \in {"m", "MM"} THEN Pad(c.m, 2) ELSE Pad(c.d, 2)
    IN  Piece(letters[1]) \o SeparatorOf(format) \o Piece(letters[2])
          \o SeparatorOf(format) \o Piece(letters[3])

\* days that no calendar has, and days that every calendar has
DayProbes ==
    {[y |-> 2024, m |-> 4, d |-> 31], [y |-> 2024, m |-> 2, d |-> 30],
     [y |-> 2023, m |-> 2, d |-> 29], [y |-> 2024, m |-> 13, d |-> 1],
     [y |-> 2024, m |-> 2, d |-> 29], [y |-> 2024, m |-> 4, d |-> 30],
     [y |-> 2024, m |-> 12, d |-> 31]}

\* C23: under every day-bearing format of date_format a value of the
\* format's structure passes only when it is a real calendar date: a run
\* rejects day 31 of a 30-day month, February 30th and a 13th month.
C23_UnrealDateRejected ==
    CleanRun =>
        \A format \in DayFormats : \A k \in FormatFields(format) :
            (/\ MatchShape(TextOf(k), formatPatterns(format))
             /\ ~IsCalendarDate(ReadDay(TextOf(k), format))) => ~Passed(k)

\* What the validator does with the probes: the formats whose Date is built
\* from the three numbers (lines 851..878) accept every probe, real or not,
\* since new Date(y, m, d) rolls over; Y-m-d and YYYY-MM-DD, whose Date is
\* parsed from the text and compared with it, accept the real ones only.
RollsOverUnlessCompared ==
    (runs = 0 /\ ~validationDebug /\ ~returned.called) =>
        \A format \in DayFormats, c \in DayProbes :
            validateDateFormat(Str(WriteDay(c, format)), <<format>>).valid
              = (format \notin {"Y-m-d", "YYYY-MM-DD"} \/ IsCalendarDate(c))

\* the month/year formats of date_format
MonthYearFormats == {"m/Y", "MM/YYYY", "m-Y", "MM-YYYY"}

\* the month a month/year value reads: the digits before the separator
MonthOf(value, format) == ToNat(Split(value, SeparatorOf(format))[1])

\* C24: under a month/year format a run accepts exactly the values of the
\* format's structure whose month is in 1..12: "01/2024" passes under
\* MM/YYYY and "1-2024" under m-Y, and "13/2024" fails.
C24_MonthYearAcceptsMonths ==
    CleanRun =>
        \A format \in MonthYearFormats : \A k \in FormatFields(format) :
            Passed(k) <=> (/\ MatchShape(TextOf(k), formatPatterns(format))
                           /\ MonthOf(TextOf(k), format) \in 1..12)

\* What the validator does with month/year values: none passes, whatever
\* its month.
MonthYearNeverPasses ==
    (runs = 0 /\ ~validationDebug /\ ~returned.called) =>
        \A format \in MonthYearFormats, month \in {"1", "01", "6", "12", "13", "00"} :
            ~validateDateFormat(Str(month \o SeparatorOf(format) \o "2024"), <<format>>).valid

\* C25: a run changes the store and its return value only: every element of
\* the form (its value, its attributes and its classes) is after the run as
\* it was before.
C25_RunLeavesFormUnchanged ==
    [][runs' = runs + 1 => form' = form]_vars

\* the map holds exactly the keys of the store that have a message, each
\* once and with the first message of its list
IsFirstMessages(errorMessages, store) ==
    /\ {errorMessages[i].key : i \in 1..Len(errorMessages)}
         = {key \in ErrorKeys(store) : ErrorsOf(store, key) # <<>>}
    /\ \A i, j \in 1..Len(errorMessages) :
          errorMessages[i].key = errorMessages[j].key => i = j
    /\ \A i \in 1..Len(errorMessages) :
          errorMessages[i].message = ErrorsOf(store, errorMessages[i].key)[1]

\* what validationJsError('raw') returns in a state with the given store
RawOf(store) ==
    validationJsError(store, "raw", "single", display, page.toastr, page.messagesDiv)
        .errorMessages

\* C26: validationJsError('raw') returns exactly the keys of the store that
\* hold a message, each with the first message of its list; no call of
\* validationJsError changes the store, and as long as no run intervenes the
\* map it returns stays the same.
C26_RawIsFirstMessages ==
    [][/\ IsFirstMessages(RawOf(validationErrors), validationErrors)
       /\ runs' = runs =>
             /\ validationErrors' = validationErrors
             /\ RawOf(validationErrors') = RawOf(validationErrors)
       /\ (returned' # returned /\ ~returned'.undefined) =>
             /\ IsFirstMessages(returned'.errorMessages, validationErrors)
             /\ validationErrors' = validationErrors]_vars

\* C26 witness: a key of the store holds two messages, and the map returned
\* by validationJsError has every key of the store, that one with the first
\* of its two messages
C26_Witness ==
    /\ lastCall.ran /\ returned.called /\ ~returned.undefined
    /\ Len(returned.errorMessages) = Len(validationErrors)
    /\ \E n \in 1..Len(validationErrors) :
          /\ Len(validationErrors[n].messages) >= 2
          /\ validationErrors[n].messages[1] # validationErrors[n].messages[2]
          /\ \E i \in 1..Len(returned.errorMessages) :
                returned.errorMessages[i]
                  = [key |-> validationErrors[n].key,
                     message |-> validationErrors[n].messages[1]]

\* the text of a token before its first ':' (all of it when it has none)
NameOfToken(token) ==
    IF IndexOf(token, ":") = 0 THEN token ELSE SubSeq(token, 1, IndexOf(token, ":") - 1)

\* the text of a token after its first ':' ("" when it has none)
RestOfToken(token) ==
    IF IndexOf(token, ":") = 0 THEN "" ELSE SliceFrom(token, IndexOf(token, ":") + 1)

\* rule-spec strings to parse
RuleSpecs ==
    {"required", "required|email|min_length:5", "after:2024-01-01T10:00", "in:a,,b,",
     "regex:/^a:b,c$/|max:3", "", "|", "min:", "between:1,10|", ":x", "a::b", "in:,",
     "min:2|required"}

\* the chain has one rule per '|'-separated token, in the order written, each
\* with the name and the parameters of its token
ParsedAsWritten(chain, tokens) ==
    /\ Len(chain) = Len(tokens)
    /\ \A k \in 1..Len(tokens) :
          /\ chain[k].name = NameOfToken(tokens[k])
          /\ chain[k].parameters
               = SelectSeq(Split(RestOfToken(tokens[k]), ","), LAMBDA p : p # "")

\* the rules of the page without the entries whose rule-spec is no string
StringRules == SelectSeq(page.rules, LAMBDA e : e.rules.t = "string")

\* the last run stored and returned what the given run did
RanLike(run) == validationErrors = run.errors /\ ret.value = run.value

\* C27: parseRules gives one rule per '|'-separated token in the order
\* written, the name being the text before the token's first ':' and the
\* parameters the rest of the token split on ',' without its empty segments;
\* a rule-spec that is no string gives the empty chain, and a run records
\* nothing for such a field and ends as the run without it does.
C27_ParseRules ==
    /\ (runs = 0 /\ ~validationDebug /\ ~returned.called) =>
          /\ \A spec \in RuleSpecs : ParsedAsWritten(parseRules(Str(spec)), Split(spec, "|"))
          /\ \A spec \in {Undef, Null, Num(5 * Scale), Bool(TRUE), Arr(<<"required">>)} :
                parseRules(spec) = <<>>
    /\ (CleanRun /\ StringRules # page.rules) =>
          /\ \A k \in 1..Len(page.rules) :
                page.rules[k].rules.t # "string"
                   => ErrorsOf(validationErrors, page.rules[k].field) = <<>>
          /\ RanLike(validationJs(lastCall.debug, <<>>, FormElement(FALSE, "", TRUE),
                                  lastCall.form, StringRules, lastCall.messages,
                                  lastCall.attributeType))

\* C27 witness: a run on a form whose empty fields nick and alias have
\* rule-specs that are no strings returns true and stores nothing, the
\* chains of the other fields being parsed with the empty segment dropped
\* and the colons of the parameter kept
C27_Witness ==
    /\ CleanRun /\ ret.value = TRUE /\ validationErrors = <<>>
    /\ \E k \in PresentPlain :
          /\ page.rules[k].rules.t # "string"
          /\ getFieldValue(lastCall.form, ElementOf(page.rules[k].field)) = Str("")
    /\ \E k \in PresentPlain :
          parseRules(page.rules[k].rules) = <<Rule("in", <<"a", "b">>)>>
    /\ \E k \in PresentPlain :
          parseRules(page.rules[k].rules)
            = <<Rule("required", <<>>), Rule("after", <<"2024-01-01T10:00">>)>>

\* the comparand of gt, lt and lte as the claim resolves it: the current
\* value of the field the parameter names, else the parameter as a literal
ResolvedComparand(param, fields, attributeType) ==
    IF \E i \in 1..Len(fields) : GetAttribute(fields[i], attributeType) = param
    THEN getFieldValue(fields,
             CHOOSE i \in 1..Len(fields) :
                 /\ GetAttribute(fields[i], attributeType) = param
                 /\ \A j \in 1..(i - 1) : GetAttribute(fields[j], attributeType) # param)
    ELSE Str(param)

\* value op comparand: by number when both look numeric, else by the length
\* of their texts
ComparesAs(op, value, comparand) ==
    LET a == IF isNumericValue(value) /\ isNumericValue(comparand)
             THEN ParseFloat(value).v ELSE Len(ToStr(value)) * Scale
        b == IF isNumericValue(value) /\ isNumericValue(comparand)
             THEN ParseFloat(comparand).v ELSE Len(ToStr(comparand)) * Scale
    IN  CASE op = "gt" -> a > b
          [] op = "lt" -> a < b
          [] op = "lte" -> a <= b

\* the outcome of the rule op:param on the value, in the given form
Compared(op, value, param, fields) ==
    validateRule(value, Rule(op, <<param>>), fields[1], fields, "name").valid

\* values and parameters to compare
CompareProbes ==
    {Str("10"), Str("9.5"), Str("pear"), Str("zz"), Str(" 3 "), Str("1e1"), Str("12abc"),
     Num(7 * Scale), Bool(TRUE)}

CompareParams == {"floor", "price", "word", "zoo", "10", "aa", "9.5", "abc", "q\"r"}

\* the claim's reading of the three rules on one value and one parameter
\* that makes a valid selector
ComparedAsClaimed(value, param, fields) ==
    /\ \A op \in {"gt", "lt", "lte"} :
          Compared(op, value, param, fields)
            = ComparesAs(op, value, ResolvedComparand(param, fields, "name"))
    /\ Compared("lte", value, param, fields) = ~Compared("gt", value, param, fields)

C29_TrueIffStoreEmpty ==
    lastCall.ran =>
        /\ ~ret.escaped
        /\ ret.value \in BOOLEAN
        /\ ret.value = (validationErrors = <<>>)
        /\ \A n \in 1..Len(validationErrors) :
              /\ validationErrors[n].messages # <<>>
              /\ validationErrors[n].key \in PlainNames \cup IndexedKeys \cup {"_global"}

\* C29 witness: a run that found failures returned false, and the run after
\* it on the corrected form returned true with an empty store
C29_Witness ==
    /\ lastCall.ran /\ lastCall.found /\ runs >= 2
    /\ lastCall.previousKeys # {} /\ "_global" \notin lastCall.previousKeys
    /\ ret.value = TRUE /\ validationErrors = <<>>

\* the text `The <label> file size must not exceed <n>MB.` for a cap of n MB
SizeMessage(label, cap) == "The " \o label \o " file size must not exceed " \o cap \o "MB."

\* the cap in MB that validateSize enforces for the parameters of the rule
EnforcedCap(parameters) ==
    IF Len(parameters) > 0 THEN parameters[1] ELSE NatToString(DefaultMaxSizeMB)

\* C30: when `size` fails on a file field and the page gives no message of
\* its own, the recorded message states the cap in MB that the validator
\* enforced: the rule's parameter, or 4 when the rule has none.
C30_SizeMessageStatesEnforcedCap ==
    CleanRun =>
        \A k \in PresentPlain :
            LET field == page.rules[k].field
                chain == parseRules(page.rules[k].rules)
            IN  (/\ Len(chain) = 1 /\ chain[1].name = "size"
                 /\ lastCall.form[ElementOf(field)].type = "file"
                 /\ MessageFor(FieldMessagesOf(lastCall.messages, field), "size") = ""
                 /\ ~Passed(k))
                => ErrorsOf(validationErrors, field)
                     = <<SizeMessage(FieldLabel(FieldMessagesOf(lastCall.messages, field),
                                                field),
                                     EnforcedCap(chain[1].parameters))>>
=============================================================================
